---- MODULE Spec2Model ----
(***************************************************************************)
(* browsergame-engine: the checksum-gated update law (shared), the         *)
(* per-game orchestrator and connection protocol (server) and the client   *)
(* reconciliation state machine (client).                                  *)
(*                                                                         *)
(* Option<T> is modelled as a sequence: <<>> is None, <<x>> is Some(x).    *)
(***************************************************************************)
EXTENDS Integers, Sequences, FiniteSets, TLC

\* ------------------------------------------------------------------ bounds

\* domain states are 0..WinScore; the sample State reports a winner at WinScore
WinScore == 2
\* events (ticks and client events together) enqueued over a run
MaxEvents == 2
\* requests the client machine sends over a run of the client specification
MaxSent == 4
\* reconnection backoff timers the client starts over a run
MaxTimers == 2
\* the broadcast channel's capacity (128 in the source, scaled down)
BroadcastCap == 1
\* changes of the backend's user-data mapping, each followed by the refresh trigger
MaxTriggers == 2
\* calls of request(Req::Event(..)) by the connections
MaxRequests == 2
\* calls of ServerState::load and ServerState::create
MaxLoads == 3
\* the width in bits of a Qty amount (64 in the source, scaled down)
QtyBits == 2
\* entities the sample entity State holds at most
MaxEntities == 2

\* ------------------------------------------------------------- value sets

UserIds == {1, 2}
Seeds == {0, 1}
ClientEvents == {"init", "act"}
\* the client events the connections of the server specification request
RequestedEvents == {"act"}
\* the users the connections of the server specification are opened for
ConnUsers == {2}
Conns == {1}

\* CustomMap is an IndexMap: an insertion-ordered sequence of <<key, value>>.
UserMaps == { << <<2, 0>> >>, << <<2, 1>> >> }

States == 0..WinScore

TickEvent == [kind |-> "ServerEvent", ev |-> "tick", user |-> 0]
ClientEventOf(e, u) == [kind |-> "ClientEvent", ev |-> e, user |-> u]
Events == {TickEvent} \cup {ClientEventOf(e, u) : e \in ClientEvents, u \in UserIds}

Wrappers == [state : States, users : UserMaps]

\* ------------------------------------------------------ shared: the State

\* IndexMap::get
MapGet(m, k) ==
    IF \E i \in 1..Len(m) : m[i][1] = k
    THEN << m[CHOOSE i \in 1..Len(m) : m[i][1] = k][2] >>
    ELSE <<>>

\* the sample State's terminal condition
has_winner(s) == IF s >= WinScore THEN <<"winner">> ELSE <<>>

Min(a, b) == IF a < b THEN a ELSE b

\* State::update of the sample State: a score that a tick advances by a
\* seed-drawn amount and an "act" of a known user by a seed- and
\* user-data-drawn amount; a decided game no longer changes.
StateUpdate(s, seed, event, user_data) ==
    IF has_winner(s) # <<>> THEN s
    ELSE IF event.kind = "ServerEvent" THEN Min(WinScore, s + seed)
    ELSE IF event.ev = "act" /\ user_data # <<>>
         THEN Min(WinScore, s + ((seed + user_data[1]) % 2))
    ELSE s

\* rmp_serde::to_vec of a StateWrapper: the state, then the map's length and
\* its entries in iteration order
RECURSIVE SerializeMap(_)
SerializeMap(m) ==
    IF m = <<>> THEN <<>>
    ELSE <<m[1][1], m[1][2]>> \o SerializeMap(Tail(m))

Serialize(w) == <<w.state, Len(w.users)>> \o SerializeMap(w.users)

\* the digest of the serialised bytes: a positional fold, injective on the
\* byte strings of the model as SHA-256 is up to collisions
RECURSIVE Digest(_)
Digest(bytes) ==
    IF bytes = <<>> THEN 1
    ELSE Digest(SubSeq(bytes, 1, Len(bytes) - 1)) * 5 + bytes[Len(bytes)] + 1

\* StateWrapper::checksum
Checksum(w) == Digest(Serialize(w))

Checksums == {Checksum(w) : w \in Wrappers} \cup {0}

EventDatas == [event : Events, seed : Seeds, state_checksum : Checksums]

\* a bug: the update runs before the checksum is compared
UpdateCheckedUpdateFirst(w, d) ==
    LET uid == IF d.event.kind = "ClientEvent" THEN <<d.event.user>> ELSE <<>>
        ud == IF uid = <<>> THEN <<>> ELSE MapGet(w.users, uid[1])
        nw == [w EXCEPT !.state = StateUpdate(w.state, d.seed, d.event, ud)]
    IN  IF Checksum(w) # d.state_checksum
        THEN [res |-> "InvalidChecksum", w |-> nw, updates |-> 1]
        ELSE [res |-> "Ok", w |-> nw, updates |-> 1]

\* StateWrapper::update_checked: the result, the wrapper afterwards and the
\* number of State::update invocations
UpdateChecked(w, d) ==
    IF Checksum(w) # d.state_checksum
    THEN [res |-> "InvalidChecksum", w |-> w, updates |-> 0]
    ELSE LET uid == IF d.event.kind = "ClientEvent" THEN <<d.event.user>> ELSE <<>>
             ud == IF uid = <<>> THEN <<>> ELSE MapGet(w.users, uid[1])
         IN  [res |-> "Ok",
              w |-> [w EXCEPT !.state = StateUpdate(w.state, d.seed, d.event, ud)],
              updates |-> 1]

\* Res::Sync(SyncData { user_id, state })
SyncRes(u, w) == [kind |-> "Sync", data |-> [user_id |-> u, state |-> w]]

\* Res::Event(EventData)
EventRes(d) == [kind |-> "Event", data |-> d]

\* a bug: the refresh notification answered with a new, empty mapping
UserUpdateResEmpty(w) == [kind |-> "UserUpdate", data |-> <<>>]

\* Res::UserUpdate(state_wrapper.users.clone())
UserUpdateRes(w) == [kind |-> "UserUpdate", data |-> w.users]

\* Req::Sync and Req::Event(e)
ReqSync == [kind |-> "Sync", ev |-> "none"]
ReqEvent(e) == [kind |-> "Event", ev |-> e]

SyncDatas == [user_id : UserIds, state : Wrappers]

\* the close code the client treats like an unclean close
DesyncCloseCode == 4000
CloseCodes == {1000, DesyncCloseCode}

VARIABLES
    \* -- update_checked on its own
    uw,         \* the StateWrapper update_checked is called on
    ucall,      \* the last call: <<>> or <<[pre, d, res, updates]>>
    \* -- the client (ClientState)
    web_socket,             \* "connecting" | "open" | "closing" | "closed"
    web_socket_reconnector, \* Option<StreamHandle>
    mirror,                 \* ClientState.state: Option<SyncData>
    outbox,                 \* the requests sent with web_socket.send_bytes, in order
    cmsg,                   \* the last EventWrapper handled: <<>> or <<[kind, arg]>>
    timers_started,         \* history: the calls of orders.stream_with_handle(streams::backoff(..))
    user_closed,            \* history: CloseWebSocket has been handled
    \* -- the server (ServerState, one game)
    games,            \* the game ids that have an entry in the live-games map
    gamesQ,           \* the waiters on the live-games RwLock, first in first out
    wrapper,          \* ServerStateImpl.state: the StateWrapper behind the state RwLock
    stateLock,        \* who holds the state RwLock's write guard: "free" | "event"
    reqQueue,         \* the unbounded event queue: a sequence of [id, event]
    reqOpen,          \* the event queue's receiver is alive
    saveChan,         \* the capacity-1 persistence channel: <<>> or <<state>>
    bcast,            \* the broadcast channel: the Res::Event messages it retains
    sentLog,          \* history: the [id, event] of every res_sender.send, in order
    enqLog,           \* history: every event enqueued, in order (its id is its index)
    appliedLog,       \* history: every [id, event] passed through State::update, in order
    update_user_data, \* ServerState.update_user_data: the Notify holds a permit
    tickPc,           \* tick task: "run" | "aborted"
    refPc,            \* refresh task: "wait" | "load" | "write" | "notify" | "failed" | "aborted"
    evPc,             \* event task: "recv" | "wlock" | "apply" | "panicked" | "died" | "aborted"
    evCur,            \* event task: the dequeued [id, event]
    evChecksum,       \* event task: the state_checksum it read
    abortReq,         \* tasks aborted while running between two suspension points
    perPc,            \* persistence task: "recv" | "save" | "remove" | "done" | "failed"
    perState,         \* persistence task: the snapshot it received
    loadPc,           \* ServerState::load: "spawned" | "insert" | "done"
    connPc,           \* per connection: "none" | "idle" | "wait_games" | "select" |
                      \*   "read_sync" | "read_users" | "read_lag" | "closed" | "panicked"
    connUser,         \* per connection: user_id
    reqCalls,         \* history: how many times request(Req::Event(..)) was called
    rxNext,           \* per connection: how many broadcasts lie before res_receiver's position
    syncPermit,       \* per connection: sync_state holds a permit
    syncAsked,        \* history, per connection: a Req::Sync was made and no poll has answered one since
    userNotified,     \* per connection: its pending updated_user_data.notified() was woken
    pollRes,          \* per connection: what the last poll returned and why: <<>> or <<[via, res]>>
    \* -- two copies of one StateWrapper whose State holds an EntitySet
    copyA,     \* the first copy: [state, users], state being the EntitySet's entries
    copyB,     \* the second copy
    pcall,     \* history: <<>> or the last pair of update_checked calls:
               \*   <<[preA, preB, d, resA, resB]>>
    \* -- one ServerState with two games
    mGames,    \* the games that have an entry in the live-games map
    mQ,        \* the waiters on the live-games RwLock, first in first out
    mLoad,     \* per game, ServerState::load: "idle" | "queued" | "done"
    mConn,     \* per game, its connection: "none" | "conn_wait" | "idle" | "poll_wait" |
               \*   "select" | "panicked"
    mRef,      \* per game, its refresh task: "none" | "start" | "wait" | "load" | "write" |
               \*   "notify" | "aborted"
    mPermit,   \* ServerState.update_user_data holds a permit
    mWaitQ,    \* the refresh tasks waiting in update_user_data.notified(), oldest first
    mStore,    \* the version of the backend's user-data mapping
    mLoaded,   \* per game: the version its refresh task loaded
    mUsers,    \* per game: the version in StateWrapper.users
    mPersist,  \* per game, its persistence task: "run" | "queued" | "done"
    \* -- the calls of ServerState::load and ServerState::create on one ServerState
    lGame,     \* per call: the game id it loads (0: not known yet)
    lPc,       \* per call: "none" | "create_game" | "load_game" | "load_user_data" |
               \*   "failed" (returned Err) | "spawned" | "done" (returned Ok)
    lTasks,    \* per call, the tick, refresh and event tasks it spawned:
               \*   "none" | "run" | "aborted"
    lPer,      \* per call, the persistence task it spawned:
               \*   "none" | "run" | "remove" | "done" | "failed"
    lMap,      \* the live-games map: per game id the call whose entry it holds, or 0
    \* -- one EntitySet and one EntityRefSet derived from it
    eSet,      \* EntitySet.entities: the <<EntityRef, entity>> entries in IndexMap order
    eRefs,     \* EntityRefSet.entities: the EntityRefs in IndexSet order
    eOrder,    \* history: every EntityRef that insert returned, in order
    eGone,     \* history: the EntityRefs whose entity was removed from the EntitySet
    eLast,     \* history: <<>> or the last operation: <<[op, set, refs, calls, f]>>,
               \*   set and refs being the two containers before it, f its callback,
               \*   calls the EntityRefs the callback was called on, in order
    \* -- two Qty values and the operations on them
    qa,        \* the left operand (self): the <<resource, amount>> entries in IndexMap order
    qb,        \* the right operand (cost, rhs)
    qres,      \* history: <<>> or the last operation:
               \*   <<[op, a, b, panic, q, covers, eq]>>, a and b being the operands before it
    \* -- one connection's answers handed to its client
    held,      \* history: every value the server's StateWrapper has had
    snapLen    \* history, per connection: how many events the wrapper had applied
               \*   when the last Res::Sync that poll returned was read

uvars == <<uw, ucall, copyA, copyB, pcall>>
cvars == <<web_socket, web_socket_reconnector, mirror, outbox, cmsg, timers_started, user_closed>>
svars == <<games, gamesQ, wrapper, stateLock, reqQueue, reqOpen, saveChan, bcast, sentLog,
           enqLog, appliedLog, update_user_data, tickPc, refPc, evPc, evCur,
           evChecksum, abortReq, perPc, perState, loadPc, connPc, connUser, reqCalls, rxNext,
           syncPermit, syncAsked, userNotified, pollRes>>
mvars == <<mGames, mQ, mLoad, mConn, mRef, mPermit, mWaitQ, mStore, mLoaded, mUsers, mPersist>>
lvars == <<lGame, lPc, lTasks, lPer, lMap>>
evars == <<eSet, eRefs, eOrder, eGone, eLast>>
qvars == <<qa, qb, qres>>
dvars == <<held, snapLen>>
xvars == <<lvars, evars, qvars, dvars>>
vars == <<uvars, cvars, svars, mvars, xvars>>

\* ------------------------------ update_checked on a State with an EntitySet

\* the values Uuid::new_v4() can return
EntityRefs == {1, 2, 3}

\* EntitySet::insert with the EntityRef that EntityRef::new() returned:
\* IndexMap::insert replaces the value of a key it has and appends otherwise
EntitySetInsert(entities, entity_ref, entity) ==
    IF \E i \in 1..Len(entities) : entities[i][1] = entity_ref
    THEN [i \in 1..Len(entities) |->
            IF entities[i][1] = entity_ref THEN <<entity_ref, entity>> ELSE entities[i]]
    ELSE Append(entities, <<entity_ref, entity>>)

\* the EntityRefs an EntitySet holds
EntityKeys(entities) == {entities[i][1] : i \in 1..Len(entities)}

\* State::update of a State that is an EntitySet: an "act" inserts an entity
\* drawn from the seed and the user while there is room; entity_ref is what
\* EntityRef::new() returns inside the insert
EntityStateUpdate(s, seed, event, entity_ref) ==
    IF event.kind = "ClientEvent" /\ event.ev = "act" /\ Len(s) < MaxEntities
    THEN EntitySetInsert(s, entity_ref, ((seed + event.user) % 2) + 1)
    ELSE s

\* rmp_serde::to_vec of such a StateWrapper
SerializeEntities(w) ==
    <<Len(w.state)>> \o SerializeMap(w.state) \o <<Len(w.users)>> \o SerializeMap(w.users)

\* StateWrapper::checksum
EntityChecksum(w) == Digest(SerializeEntities(w))

\* StateWrapper::update_checked on such a wrapper
UpdateCheckedEntities(w, d, entity_ref) ==
    IF EntityChecksum(w) # d.state_checksum
    THEN [res |-> "InvalidChecksum", w |-> w]
    ELSE [res |-> "Ok",
          w |-> [w EXCEPT !.state = EntityStateUpdate(w.state, d.seed, d.event, entity_ref)]]

PInit ==
    /\ copyA = [state |-> <<>>, users |-> <<>>]
    /\ copyB = [state |-> <<>>, users |-> <<>>]
    /\ pcall = <<>>

\* both copies are given the same EventData, whose checksum is the first
\* copy's or a wrong one; each call of Uuid::new_v4() returns any identifier
\* not yet in use
PairUpdateChecked(event, seed) ==
    \E c \in {EntityChecksum(copyA), 0} :
    \E ra \in EntityRefs \ EntityKeys(copyA.state), rb \in EntityRefs \ EntityKeys(copyB.state) :
       LET d == [event |-> event, seed |-> seed, state_checksum |-> c]
           a == UpdateCheckedEntities(copyA, d, ra)
           b == UpdateCheckedEntities(copyB, d, rb)
       IN  /\ copyA' = a.w
           /\ copyB' = b.w
           /\ pcall' = << [preA |-> copyA, preB |-> copyB, d |-> d,
                           resA |-> a.res, resB |-> b.res] >>
           /\ UNCHANGED <<uw, ucall>>

\* ------------------------------------------ update_checked on its own

UInit ==
    /\ uw \in Wrappers
    /\ ucall = <<>>
    /\ PInit

UIdle ==
    /\ uw = [state |-> 0, users |-> <<>>]
    /\ ucall = <<>>
    /\ PInit

UUpdateChecked(d) ==
    LET r == UpdateChecked(uw, d)
    IN  /\ uw' = r.w
        /\ ucall' = << [pre |-> uw, d |-> d, res |-> r.res, updates |-> r.updates] >>
        /\ UNCHANGED <<copyA, copyB, pcall>>

\* ------------------------------------------------------------ the client

\* ClientState::init
CInit ==
    /\ web_socket = "connecting"
    /\ web_socket_reconnector = <<>>
    /\ mirror = <<>>
    /\ outbox = <<>>
    /\ cmsg = <<>>
    /\ timers_started = 0
    /\ user_closed = FALSE

Handled(kind, arg) == << [kind |-> kind, arg |-> arg] >>

\* a bug: the initialization event is sent before the snapshot is asked for
WebSocketOpenedInitFirst ==
    /\ web_socket = "connecting"
    /\ Len(outbox) + 2 <= MaxSent
    /\ web_socket' = "open"
    /\ web_socket_reconnector' = <<>>
    /\ outbox' = outbox \o <<ReqEvent("init"), ReqSync>>
    /\ cmsg' = Handled("WebSocketOpened", <<>>)
    /\ UNCHANGED <<mirror, timers_started, user_closed>>

WebSocketOpened ==
    /\ web_socket = "connecting"
    /\ Len(outbox) + 2 <= MaxSent
    /\ web_socket' = "open"
    /\ web_socket_reconnector' = <<>>
    /\ outbox' = outbox \o <<ReqSync, ReqEvent("init")>>
    /\ cmsg' = Handled("WebSocketOpened", <<>>)
    /\ UNCHANGED <<mirror, timers_started, user_closed>>

CloseWebSocket ==
    /\ web_socket \in {"connecting", "open"}
    /\ web_socket' = "closing"
    /\ web_socket_reconnector' = <<>>
    /\ cmsg' = Handled("CloseWebSocket", <<>>)
    /\ user_closed' = TRUE
    /\ UNCHANGED <<mirror, outbox, timers_started>>

WebSocketClosed(was_clean, code) ==
    /\ web_socket \in {"connecting", "open", "closing"}
    /\ web_socket' = "closed"
    /\ IF (~was_clean \/ code = DesyncCloseCode) /\ web_socket_reconnector = <<>>
       THEN /\ timers_started < MaxTimers
            /\ web_socket_reconnector' = <<"backoff">>
            /\ timers_started' = timers_started + 1
       ELSE UNCHANGED <<web_socket_reconnector, timers_started>>
    /\ cmsg' = Handled("WebSocketClosed", <<was_clean, code>>)
    /\ UNCHANGED <<mirror, outbox, user_closed>>

\* a bug: a socket error starts a timer without looking for a pending one
WebSocketFailedAlways ==
    /\ web_socket \in {"connecting", "open"}
    /\ timers_started < MaxTimers
    /\ web_socket_reconnector' = <<"backoff">>
    /\ timers_started' = timers_started + 1
    /\ cmsg' = Handled("WebSocketFailed", <<>>)
    /\ UNCHANGED <<web_socket, mirror, outbox, user_closed>>

WebSocketFailed ==
    /\ web_socket \in {"connecting", "open"}
    /\ IF web_socket_reconnector = <<>>
       THEN /\ timers_started < MaxTimers
            /\ web_socket_reconnector' = <<"backoff">>
            /\ timers_started' = timers_started + 1
       ELSE UNCHANGED <<web_socket_reconnector, timers_started>>
    /\ cmsg' = Handled("WebSocketFailed", <<>>)
    /\ UNCHANGED <<web_socket, mirror, outbox, user_closed>>

ReconnectWebSocket ==
    /\ web_socket_reconnector # <<>>
    /\ web_socket' = "connecting"
    /\ cmsg' = Handled("ReconnectWebSocket", <<>>)
    /\ UNCHANGED <<web_socket_reconnector, mirror, outbox, timers_started, user_closed>>

SendGameEvent(e) ==
    /\ web_socket = "open"
    /\ Len(outbox) < MaxSent
    /\ outbox' = Append(outbox, ReqEvent(e))
    /\ cmsg' = Handled("SendGameEvent", <<e>>)
    /\ UNCHANGED <<web_socket, web_socket_reconnector, mirror, timers_started, user_closed>>

\* a bug: a snapshot is taken only while there is no mirror yet
InitGameStateIfAbsent(sync_data) ==
    /\ web_socket = "open"
    /\ mirror' = IF mirror = <<>> THEN <<sync_data>> ELSE mirror
    /\ cmsg' = Handled("InitGameState", <<sync_data>>)
    /\ UNCHANGED <<web_socket, web_socket_reconnector, outbox, timers_started, user_closed>>

InitGameState(sync_data) ==
    /\ web_socket = "open"
    /\ mirror' = <<sync_data>>
    /\ cmsg' = Handled("InitGameState", <<sync_data>>)
    /\ UNCHANGED <<web_socket, web_socket_reconnector, outbox, timers_started, user_closed>>

\* a bug: a rejected event is dropped without asking for a resync
ReceiveGameEventNoSync(d) ==
    /\ web_socket = "open"
    /\ Len(outbox) < MaxSent
    /\ IF mirror # <<>>
       THEN LET r == UpdateChecked(mirror[1].state, d)
            IN  /\ mirror' = << [mirror[1] EXCEPT !.state = r.w] >>
                /\ outbox' = outbox
       ELSE UNCHANGED <<mirror, outbox>>
    /\ cmsg' = Handled("ReceiveGameEvent", <<d>>)
    /\ UNCHANGED <<web_socket, web_socket_reconnector, timers_started, user_closed>>

ReceiveGameEvent(d) ==
    /\ web_socket = "open"
    /\ Len(outbox) < MaxSent
    /\ IF mirror # <<>>
       THEN LET r == UpdateChecked(mirror[1].state, d)
            IN  /\ mirror' = << [mirror[1] EXCEPT !.state = r.w] >>
                /\ outbox' = IF r.res # "Ok" THEN Append(outbox, ReqSync) ELSE outbox
       ELSE UNCHANGED <<mirror, outbox>>
    /\ cmsg' = Handled("ReceiveGameEvent", <<d>>)
    /\ UNCHANGED <<web_socket, web_socket_reconnector, timers_started, user_closed>>

UserUpdate(map) ==
    /\ web_socket = "open"
    /\ mirror' = IF mirror # <<>>
                 THEN << [mirror[1] EXCEPT !.state.users = map] >>
                 ELSE mirror
    /\ cmsg' = Handled("UserUpdate", <<map>>)
    /\ UNCHANGED <<web_socket, web_socket_reconnector, outbox, timers_started, user_closed>>


\* ------------------------------------------------------------ the server

\* the game the orchestrator runs
G == 1

\* connections inside poll hold the read guard of the live-games RwLock from
\* `self.state.games.read().await` until poll returns
GamesReaders ==
    {c \in Conns : connPc[c] \in {"select", "read_sync", "read_users", "read_lag"}}

\* a bug: the newest queued event is taken first
RecvNewest(q) ==
    [item |-> q[Len(q)], rest |-> SubSeq(q, 1, Len(q) - 1)]

\* mpsc::UnboundedReceiver::recv on a non-empty queue
Recv(q) == [item |-> Head(q), rest |-> Tail(q)]

\* mpsc::Sender::try_send on the capacity-1 persistence channel: Full and
\* Closed are both ignored by the caller (`.ok()`)
TrySend(chan, v) ==
    IF chan = <<>> /\ perPc \notin {"failed", "done"} THEN <<v>> ELSE chan

\* a bug: the refresh task stores a freshly built wrapper
RefreshAssignWhole(w, m) == [state |-> 0, users |-> m]

\* `game_state.state.write().await.users = ...`
RefreshAssign(w, m) == [w EXCEPT !.users = m]

\* broadcast::Sender::send(msg).ok(): with no receiver the message is not
\* stored; otherwise it takes the slot of the oldest once the channel is full
\* (the receiver that load itself holds is never read)
BroadcastSend(buf, msg) ==
    IF \A c \in Conns : connPc[c] = "none" THEN buf
    ELSE IF Len(buf) < BroadcastCap THEN Append(buf, msg)
    ELSE Append(Tail(buf), msg)

\* the retained message that was the p-th broadcast
Retained(p) == bcast[p - (Len(sentLog) - Len(bcast))]

\* after ServerState::load has spawned its four tasks (line 289), before it
\* inserts the game in the live-games map
SInit ==
    /\ games = {}
    /\ gamesQ = <<>>
    /\ wrapper \in [state : {0}, users : UserMaps]
    /\ stateLock = "free"
    /\ reqQueue = <<>>
    /\ reqOpen = TRUE
    /\ saveChan = <<>>
    /\ bcast = <<>>
    /\ sentLog = <<>>
    /\ enqLog = <<>>
    /\ appliedLog = <<>>
    /\ update_user_data = FALSE
    /\ tickPc = "run"
    /\ refPc = "wait"
    /\ evPc = "recv"
    /\ evCur = <<>>
    /\ evChecksum = 0
    /\ abortReq = {}
    /\ perPc = "recv"
    /\ perState = 0
    /\ loadPc = "spawned"
    /\ connPc = [c \in Conns |-> "none"]
    /\ connUser = [c \in Conns |-> 0]
    /\ reqCalls = 0
    /\ rxNext = [c \in Conns |-> 0]
    /\ syncPermit = [c \in Conns |-> FALSE]
    /\ syncAsked = [c \in Conns |-> FALSE]
    /\ userNotified = [c \in Conns |-> FALSE]
    /\ pollRes = [c \in Conns |-> <<>>]

SIdle ==
    /\ games = {}
    /\ gamesQ = <<>>
    /\ wrapper = [state |-> 0, users |-> <<>>]
    /\ stateLock = "free"
    /\ reqQueue = <<>>
    /\ reqOpen = TRUE
    /\ saveChan = <<>>
    /\ bcast = <<>>
    /\ sentLog = <<>>
    /\ enqLog = <<>>
    /\ appliedLog = <<>>
    /\ update_user_data = FALSE
    /\ tickPc = "run"
    /\ refPc = "wait"
    /\ evPc = "recv"
    /\ evCur = <<>>
    /\ evChecksum = 0
    /\ abortReq = {}
    /\ perPc = "recv"
    /\ perState = 0
    /\ loadPc = "spawned"
    /\ connPc = [c \in Conns |-> "none"]
    /\ connUser = [c \in Conns |-> 0]
    /\ reqCalls = 0
    /\ rxNext = [c \in Conns |-> 0]
    /\ syncPermit = [c \in Conns |-> FALSE]
    /\ syncAsked = [c \in Conns |-> FALSE]
    /\ userNotified = [c \in Conns |-> FALSE]
    /\ pollRes = [c \in Conns |-> <<>>]

\* UnboundedSender::send(event).ok(): queued unless the receiver is gone
Enqueue(event) ==
    IF reqOpen
    THEN /\ reqQueue' = Append(reqQueue, [id |-> Len(enqLog) + 1, event |-> event])
         /\ enqLog' = Append(enqLog, event)
    ELSE UNCHANGED <<reqQueue, enqLog>>

\* ---- ServerState::load, its tail

\* load reaches `self.games.write().await`
LoadAcquire ==
    /\ loadPc = "spawned"
    /\ loadPc' = "insert"
    /\ gamesQ' = Append(gamesQ, <<"load", 0>>)
    /\ UNCHANGED <<games, wrapper, stateLock, reqQueue, reqOpen, saveChan, bcast, sentLog,
                   enqLog, appliedLog, update_user_data, tickPc, refPc, evPc, evCur, evChecksum, abortReq, perPc, perState, connPc,
                   connUser, reqCalls, rxNext, syncPermit, syncAsked, userNotified, pollRes>>

\* the write guard is granted: insert(game_id, game_state), Ok(())
LoadInsert ==
    /\ loadPc = "insert"
    /\ gamesQ # <<>> /\ Head(gamesQ) = <<"load", 0>>
    /\ GamesReaders = {}
    /\ games' = games \cup {G}
    /\ gamesQ' = Tail(gamesQ)
    /\ loadPc' = "done"
    /\ UNCHANGED <<wrapper, stateLock, reqQueue, reqOpen, saveChan, bcast, sentLog,
                   enqLog, appliedLog, update_user_data, tickPc, refPc, evPc, evCur, evChecksum, abortReq, perPc, perState, connPc,
                   connUser, reqCalls, rxNext, syncPermit, syncAsked, userNotified, pollRes>>

\* ---- the tick task

TickFire ==
    /\ tickPc = "run"
    /\ Len(enqLog) < MaxEvents
    /\ Enqueue(TickEvent)
    /\ UNCHANGED <<games, gamesQ, wrapper, stateLock, reqOpen, saveChan, bcast, sentLog,
                   appliedLog, update_user_data, tickPc, refPc, evPc, evCur,
                   evChecksum, abortReq, perPc, perState, loadPc, connPc, connUser, reqCalls,
                   rxNext, syncPermit, syncAsked, userNotified, pollRes>>

\* ---- the user-data refresh task

\* ServerConnectionReq::updated_user_data: notify_one
UpdatedUserData ==
    /\ update_user_data' = TRUE
    /\ UNCHANGED <<games, gamesQ, wrapper, stateLock, reqQueue, reqOpen, saveChan,
                   bcast, sentLog, enqLog, appliedLog, tickPc, refPc, evPc, evCur,
                   evChecksum, abortReq, perPc, perState, loadPc, connPc, connUser, reqCalls,
                   rxNext, syncPermit, syncAsked, userNotified, pollRes>>

\* update_user_data.notified().await returns
RefreshWake ==
    /\ refPc = "wait"
    /\ update_user_data
    /\ update_user_data' = FALSE
    /\ refPc' = "load"
    /\ UNCHANGED <<games, gamesQ, wrapper, stateLock, reqQueue, reqOpen, saveChan,
                   bcast, sentLog, enqLog, appliedLog, tickPc, evPc, evCur,
                   evChecksum, abortReq, perPc, perState, loadPc, connPc, connUser, reqCalls,
                   rxNext, syncPermit, syncAsked, userNotified, pollRes>>

\* store.load_user_data().await?: the assigned value is evaluated before the
\* write guard is taken; an Err ends the task
RefreshLoad ==
    /\ refPc = "load"
    /\ refPc' \in {"write", "failed"}
    /\ UNCHANGED <<games, gamesQ, wrapper, stateLock, reqQueue, reqOpen, saveChan,
                   bcast, sentLog, enqLog, appliedLog, update_user_data, tickPc, evPc, evCur,
                   evChecksum, abortReq, perPc, perState, loadPc, connPc, connUser, reqCalls,
                   rxNext, syncPermit, syncAsked, userNotified, pollRes>>

\* a bug: the users field is stored without waiting for the write guard
RefreshWriteNoLock ==
    /\ refPc = "write"
    /\ \E m \in UserMaps : wrapper' = RefreshAssign(wrapper, m)
    /\ refPc' = "notify"
    /\ UNCHANGED <<games, gamesQ, stateLock, reqQueue, reqOpen, saveChan, bcast, sentLog,
                   enqLog, appliedLog, update_user_data, tickPc, evPc, evCur,
                   evChecksum, abortReq, perPc, perState, loadPc, connPc, connUser, reqCalls,
                   rxNext, syncPermit, syncAsked, userNotified, pollRes>>

\* state.write().await.users = <loaded>; the guard is dropped with the statement
RefreshWrite ==
    /\ refPc = "write"
    /\ stateLock = "free"
    /\ \E m \in UserMaps : wrapper' = RefreshAssign(wrapper, m)
    /\ refPc' = "notify"
    /\ UNCHANGED <<games, gamesQ, stateLock, reqQueue, reqOpen, saveChan, bcast, sentLog,
                   enqLog, appliedLog, update_user_data, tickPc, evPc, evCur,
                   evChecksum, abortReq, perPc, perState, loadPc, connPc, connUser, reqCalls,
                   rxNext, syncPermit, syncAsked, userNotified, pollRes>>

\* updated_user_data.notify_waiters(): wakes the notified() futures that exist
\* now, those of the connections waiting in select!; stores no permit
RefreshNotify ==
    /\ refPc = "notify"
    /\ userNotified' = [c \in Conns |-> userNotified[c] \/ connPc[c] = "select"]
    /\ refPc' = IF "refresh" \in abortReq THEN "aborted" ELSE "wait"
    /\ abortReq' = abortReq \ {"refresh"}
    /\ UNCHANGED <<games, gamesQ, wrapper, stateLock, reqQueue, reqOpen, saveChan,
                   bcast, sentLog, enqLog, appliedLog, update_user_data, tickPc, evPc, evCur, evChecksum, perPc, perState, loadPc, connPc, connUser, reqCalls,
                   rxNext, syncPermit, syncAsked, pollRes>>

\* ---- the event task

\* req_receiver.recv().await returns Some(event)
EventRecv ==
    /\ evPc = "recv"
    /\ reqQueue # <<>>
    /\ evCur' = <<Recv(reqQueue).item>>
    /\ reqQueue' = Recv(reqQueue).rest
    /\ evPc' = "wlock"
    /\ UNCHANGED <<games, gamesQ, wrapper, stateLock, reqOpen, saveChan, bcast, sentLog,
                   enqLog, appliedLog, update_user_data, tickPc, refPc, evChecksum, abortReq, perPc, perState, loadPc, connPc, connUser, reqCalls,
                   rxNext, syncPermit, syncAsked, userNotified, pollRes>>

\* game.write().await is granted; state_checksum = state_wrapper.checksum()
EventLock ==
    /\ evPc = "wlock"
    /\ stateLock = "free"
    /\ stateLock' = "event"
    /\ evChecksum' = Checksum(wrapper)
    /\ evPc' = "apply"
    /\ UNCHANGED <<games, gamesQ, wrapper, reqQueue, reqOpen, saveChan, bcast, sentLog,
                   enqLog, appliedLog, update_user_data, tickPc, refPc, evCur, abortReq, perPc, perState, loadPc, connPc, connUser, reqCalls,
                   rxNext, syncPermit, syncAsked, userNotified, pollRes>>

\* the rest of the loop body, which has no suspension point: the seed is
\* drawn, update_checked runs, the snapshot is offered to the persistence
\* channel, the event is broadcast and the write guard is dropped; a
\* rejection panics; an abort requested meanwhile takes effect at the next
\* recv().await
EventApply ==
    /\ evPc = "apply"
    /\ \E seed \in Seeds :
         LET d == [event |-> evCur[1].event, seed |-> seed, state_checksum |-> evChecksum]
             r == UpdateChecked(wrapper, d)
         IN  IF r.res = "Ok"
             THEN /\ wrapper' = r.w
                  /\ appliedLog' = Append(appliedLog, evCur[1])
                  /\ saveChan' = TrySend(saveChan, r.w.state)
                  /\ bcast' = BroadcastSend(bcast, EventRes(d))
                  /\ sentLog' = Append(sentLog, evCur[1])
                  /\ evPc' = IF "event" \in abortReq THEN "aborted" ELSE "recv"
                  /\ reqOpen' = ("event" \notin abortReq)
             ELSE /\ evPc' = "panicked"
                  /\ reqOpen' = FALSE
                  /\ UNCHANGED <<wrapper, appliedLog, saveChan, bcast, sentLog>>
    /\ reqQueue' = IF reqOpen' THEN reqQueue ELSE <<>>
    /\ evCur' = <<>>
    /\ evChecksum' = 0
    /\ stateLock' = "free"
    /\ abortReq' = abortReq \ {"event"}
    /\ UNCHANGED <<games, gamesQ, enqLog, update_user_data, tickPc, refPc, perPc, perState, loadPc, connPc, connUser, reqCalls, rxNext, syncPermit, syncAsked,
                   userNotified, pollRes>>

\* State::update, the game's own code, panics inside update_checked: the
\* task unwinds, dropping the write guard, the event queue's receiver and the
\* persistence channel's only sender; nothing is offered or broadcast
EventUpdatePanics ==
    /\ evPc = "apply"
    /\ evPc' = "died"
    /\ reqOpen' = FALSE
    /\ reqQueue' = <<>>
    /\ evCur' = <<>>
    /\ evChecksum' = 0
    /\ stateLock' = "free"
    /\ abortReq' = abortReq \ {"event"}
    /\ UNCHANGED <<games, gamesQ, wrapper, saveChan, bcast, sentLog, enqLog, appliedLog,
                   update_user_data, tickPc, refPc, perPc, perState, loadPc, connPc,
                   connUser, reqCalls, rxNext, syncPermit, syncAsked, userNotified, pollRes>>

\* ---- the persistence task

\* join_handle_tick.abort(); join_handle_update_user_data.abort();
\* join_handle_events.abort(): a task waiting at a suspension point is
\* cancelled there, a running one at its next suspension point; then
\* `games.write().await` queues for the live-games write guard
Teardown ==
    /\ tickPc' = "aborted"
    /\ refPc' = IF refPc \in {"wait", "load", "write"} THEN "aborted" ELSE refPc
    /\ evPc' = IF evPc \in {"recv", "wlock"} THEN "aborted" ELSE evPc
    /\ evCur' = IF evPc = "apply" THEN evCur ELSE <<>>
    /\ reqOpen' = (reqOpen /\ evPc = "apply")
    /\ reqQueue' = IF reqOpen' THEN reqQueue ELSE <<>>
    /\ abortReq' = {t \in {"refresh", "event"} :
                      \/ t = "refresh" /\ refPc = "notify"
                      \/ t = "event" /\ evPc = "apply"}
    /\ gamesQ' = Append(gamesQ, <<"persist", 0>>)
    /\ perPc' = "remove"

\* get_state_to_save.recv().await: Some(state), or None once the event task
\* has dropped the sender
PersistRecv ==
    /\ perPc = "recv"
    /\ IF saveChan # <<>>
       THEN /\ perState' = saveChan[1]
            /\ saveChan' = <<>>
            /\ perPc' = "save"
            /\ UNCHANGED <<gamesQ, reqQueue, reqOpen, tickPc, refPc, evPc,
                           evCur, abortReq>>
       ELSE /\ evPc \in {"panicked", "died", "aborted"}
            /\ Teardown
            /\ UNCHANGED <<perState, saveChan>>
    /\ UNCHANGED <<games, wrapper, stateLock, bcast, sentLog, enqLog, appliedLog,
                   update_user_data, evChecksum, loadPc, connPc, connUser, reqCalls,
                   rxNext, syncPermit, syncAsked, userNotified, pollRes>>

\* store.save_game(game_id, &state).await?: an Err ends the task; after a
\* save, a state with a winner leaves the loop and tears the game down
PersistSave ==
    /\ perPc = "save"
    /\ \/ /\ has_winner(perState) # <<>>
          /\ Teardown
       \/ /\ has_winner(perState) = <<>>
          /\ perPc' = "recv"
          /\ UNCHANGED <<gamesQ, reqQueue, reqOpen, tickPc, refPc, evPc,
                         evCur, abortReq>>
       \/ /\ perPc' = "failed"
          /\ UNCHANGED <<gamesQ, reqQueue, reqOpen, tickPc, refPc, evPc,
                         evCur, abortReq>>
    /\ UNCHANGED <<games, wrapper, stateLock, saveChan, bcast, sentLog, enqLog, appliedLog,
                   update_user_data, evChecksum, perState, loadPc, connPc,
                   connUser, reqCalls, rxNext, syncPermit, syncAsked, userNotified, pollRes>>

\* the write guard is granted: games.remove(&game_id), Ok(())
PersistRemove ==
    /\ perPc = "remove"
    /\ gamesQ # <<>> /\ Head(gamesQ) = <<"persist", 0>>
    /\ GamesReaders = {}
    /\ games' = games \ {G}
    /\ gamesQ' = Tail(gamesQ)
    /\ perPc' = "done"
    /\ UNCHANGED <<wrapper, stateLock, reqQueue, reqOpen, saveChan, bcast, sentLog, enqLog,
                   appliedLog, update_user_data, tickPc, refPc, evPc, evCur,
                   evChecksum, abortReq, perState, loadPc, connPc, connUser, reqCalls, rxNext,
                   syncPermit, syncAsked, userNotified, pollRes>>

\* ---- connections

\* the variables no connection operation touches
taskVars == <<games, wrapper, stateLock, saveChan, bcast, sentLog, appliedLog,
              update_user_data, tickPc, refPc, evPc, evCur, evChecksum,
              abortReq, perPc, perState, loadPc>>

\* ServerState::new_connection(user_id, game_id) for a game in the map; the
\* read guard is held for the call only; the receiver subscribes at the tail
NewConnection(c, u) ==
    /\ connPc[c] = "none"
    /\ \A b \in Conns : b < c => connPc[b] # "none"
    /\ gamesQ = <<>>
    /\ G \in games
    /\ connPc' = [connPc EXCEPT ![c] = "idle"]
    /\ connUser' = [connUser EXCEPT ![c] = u]
    /\ UNCHANGED reqCalls
    /\ rxNext' = [rxNext EXCEPT ![c] = Len(sentLog)]
    /\ UNCHANGED <<taskVars, gamesQ, reqQueue, reqOpen, enqLog, syncPermit, syncAsked,
                   userNotified, pollRes>>

\* a bug: the user id is taken from the request instead of the connection
RequestEventUserFromReq(c, e) ==
    /\ connPc[c] # "none"
    /\ Len(enqLog) < MaxEvents
    /\ reqCalls < MaxRequests
    /\ \E u \in UserIds : Enqueue(ClientEventOf(e, u))
    /\ reqCalls' = reqCalls + 1
    /\ UNCHANGED <<taskVars, gamesQ, reqOpen, connPc, connUser, rxNext, syncPermit, syncAsked,
                   userNotified, pollRes>>

\* ClientConnectionReq::request(Req::Event(event))
RequestEvent(c, e) ==
    /\ connPc[c] # "none"
    /\ Len(enqLog) < MaxEvents
    /\ reqCalls < MaxRequests
    /\ Enqueue(ClientEventOf(e, connUser[c]))
    /\ reqCalls' = reqCalls + 1
    /\ UNCHANGED <<taskVars, gamesQ, reqOpen, connPc, connUser, rxNext, syncPermit, syncAsked,
                   userNotified, pollRes>>

\* a bug: the request wakes only a poll that is already waiting
RequestSyncWaitersOnly(c) ==
    /\ connPc[c] # "none"
    /\ syncPermit' = [syncPermit EXCEPT ![c] = @ \/ connPc[c] = "select"]
    /\ syncAsked' = [syncAsked EXCEPT ![c] = TRUE]
    /\ UNCHANGED <<taskVars, gamesQ, reqQueue, reqOpen, enqLog, connPc, connUser, reqCalls,
                   rxNext, userNotified, pollRes>>

\* ClientConnectionReq::request(Req::Sync): sync_state.notify_one() wakes the
\* waiting poll or, with none waiting, stores one permit
RequestSync(c) ==
    /\ connPc[c] # "none"
    /\ syncPermit' = [syncPermit EXCEPT ![c] = TRUE]
    /\ syncAsked' = [syncAsked EXCEPT ![c] = TRUE]
    /\ UNCHANGED <<taskVars, gamesQ, reqQueue, reqOpen, enqLog, connPc, connUser, reqCalls,
                   rxNext, userNotified, pollRes>>

\* poll has the read guard of the live-games map: games.get(&game_id).unwrap()
\* panics without an entry; otherwise select! starts with fresh futures
EnterPoll(c) ==
    /\ connPc' = [connPc EXCEPT ![c] = IF G \in games THEN "select" ELSE "panicked"]
    /\ userNotified' = [userNotified EXCEPT ![c] = FALSE]
    /\ pollRes' = [pollRes EXCEPT ![c] = <<>>]

\* ClientConnectionRes::poll is called: games.read().await is granted at once
\* unless a writer is queued
PollStart(c) ==
    /\ connPc[c] = "idle"
    /\ IF gamesQ = <<>>
       THEN EnterPoll(c) /\ UNCHANGED gamesQ
       ELSE /\ connPc' = [connPc EXCEPT ![c] = "wait_games"]
            /\ gamesQ' = Append(gamesQ, <<"poll", c>>)
            /\ pollRes' = [pollRes EXCEPT ![c] = <<>>]
            /\ UNCHANGED userNotified
    /\ UNCHANGED <<taskVars, reqQueue, reqOpen, enqLog, connUser, reqCalls, rxNext, syncPermit, syncAsked>>

\* a queued games.read().await is granted
PollGranted(c) ==
    /\ connPc[c] = "wait_games"
    /\ gamesQ # <<>> /\ Head(gamesQ) = <<"poll", c>>
    /\ gamesQ' = Tail(gamesQ)
    /\ EnterPoll(c)
    /\ UNCHANGED <<taskVars, reqQueue, reqOpen, enqLog, connUser, reqCalls, rxNext, syncPermit, syncAsked>>

\* select!: sync_state.notified() completes
PollSync(c) ==
    /\ connPc[c] = "select"
    /\ syncPermit[c]
    /\ syncPermit' = [syncPermit EXCEPT ![c] = FALSE]
    /\ UNCHANGED syncAsked
    /\ userNotified' = [userNotified EXCEPT ![c] = FALSE]
    /\ connPc' = [connPc EXCEPT ![c] = "read_sync"]
    /\ UNCHANGED <<taskVars, gamesQ, reqQueue, reqOpen, enqLog, connUser, reqCalls, rxNext,
                   pollRes>>

\* select!: updated_user_data.notified() completes
PollUsers(c) ==
    /\ connPc[c] = "select"
    /\ userNotified[c]
    /\ userNotified' = [userNotified EXCEPT ![c] = FALSE]
    /\ connPc' = [connPc EXCEPT ![c] = "read_users"]
    /\ UNCHANGED <<taskVars, gamesQ, reqQueue, reqOpen, enqLog, connUser, reqCalls, rxNext,
                   syncPermit, syncAsked, pollRes>>

\* a bug: a lagged receiver ends the stream
PollRecvLagCloses(c) ==
    /\ connPc[c] = "select"
    /\ userNotified' = [userNotified EXCEPT ![c] = FALSE]
    /\ IF Len(sentLog) - rxNext[c] > BroadcastCap
       THEN /\ rxNext' = [rxNext EXCEPT ![c] = Len(sentLog) - BroadcastCap]
            /\ connPc' = [connPc EXCEPT ![c] = "closed"]
            /\ pollRes' = [pollRes EXCEPT ![c] = << [via |-> "closed", res |-> <<>>] >>]
       ELSE /\ rxNext[c] < Len(sentLog)
            /\ rxNext' = [rxNext EXCEPT ![c] = @ + 1]
            /\ connPc' = [connPc EXCEPT ![c] = "idle"]
            /\ pollRes' = [pollRes EXCEPT ![c] =
                   << [via |-> "recv", res |-> Retained(rxNext[c] + 1)] >>]
    /\ UNCHANGED <<taskVars, gamesQ, reqQueue, reqOpen, enqLog, connUser, reqCalls, syncPermit, syncAsked>>

\* select!: res_receiver.recv() completes: Lagged when more than the
\* channel's capacity was sent since the receiver's position (the receiver
\* moves to the oldest retained message), else the next message, else Closed
\* once every sender is dropped
PollRecv(c) ==
    /\ connPc[c] = "select"
    /\ userNotified' = [userNotified EXCEPT ![c] = FALSE]
    /\ IF Len(sentLog) - rxNext[c] > BroadcastCap
       THEN /\ rxNext' = [rxNext EXCEPT ![c] = Len(sentLog) - BroadcastCap]
            /\ connPc' = [connPc EXCEPT ![c] = "read_lag"]
            /\ UNCHANGED pollRes
       ELSE IF rxNext[c] < Len(sentLog)
       THEN /\ rxNext' = [rxNext EXCEPT ![c] = @ + 1]
            /\ connPc' = [connPc EXCEPT ![c] = "idle"]
            /\ pollRes' = [pollRes EXCEPT ![c] =
                   << [via |-> "recv", res |-> Retained(rxNext[c] + 1)] >>]
       ELSE /\ G \notin games
            /\ connPc' = [connPc EXCEPT ![c] = "closed"]
            /\ pollRes' = [pollRes EXCEPT ![c] = << [via |-> "closed", res |-> <<>>] >>]
            /\ UNCHANGED rxNext
    /\ UNCHANGED <<taskVars, gamesQ, reqQueue, reqOpen, enqLog, connUser, reqCalls, syncPermit, syncAsked>>

\* state.read().await is granted in the chosen branch; poll returns the
\* answer and drops both read guards
PollRead(c) ==
    /\ connPc[c] \in {"read_sync", "read_users", "read_lag"}
    /\ stateLock = "free"
    /\ pollRes' = [pollRes EXCEPT ![c] =
          IF connPc[c] = "read_sync"
          THEN << [via |-> "sync", res |-> SyncRes(connUser[c], wrapper)] >>
          ELSE IF connPc[c] = "read_users"
          THEN << [via |-> "users", res |-> UserUpdateRes(wrapper)] >>
          ELSE << [via |-> "lag", res |-> SyncRes(connUser[c], wrapper)] >>]
    /\ syncAsked' = [syncAsked EXCEPT ![c] = @ /\ connPc[c] # "read_sync"]
    /\ connPc' = [connPc EXCEPT ![c] = "idle"]
    /\ UNCHANGED <<taskVars, gamesQ, reqQueue, reqOpen, enqLog, connUser, reqCalls, rxNext,
                   syncPermit, userNotified>>


\* ------------------------------------------- the registry with two games

\* One ServerState with two games: the live-games RwLock and the two Notify
\* objects are the ServerState's own, shared by every game; each game has its
\* load call, its refresh task, its persistence task's teardown and one
\* connection.  The backend's user-data mapping is its version number.

Games == {1, 2}

\* the connections that hold the read guard of the live-games RwLock
MReaders == {g \in Games : mConn[g] = "select"}

SeqWithout(q, x) == SelectSeq(q, LAMBDA y : y # x)

\* ServerState::new
MInit ==
    /\ mGames = {}
    /\ mQ = <<>>
    /\ mLoad = [g \in Games |-> "idle"]
    /\ mConn = [g \in Games |-> "none"]
    /\ mRef = [g \in Games |-> "none"]
    /\ mPermit = FALSE
    /\ mWaitQ = <<>>
    /\ mStore = 0
    /\ mLoaded = [g \in Games |-> 0]
    /\ mUsers = [g \in Games |-> 0]
    /\ mPersist = [g \in Games |-> "run"]

\* ServerState::load(g) up to `self.games.write().await`: the mapping is
\* loaded into the wrapper and the tasks are spawned
MLoadSpawn(g) ==
    /\ mLoad[g] = "idle"
    /\ mLoad' = [mLoad EXCEPT ![g] = "queued"]
    /\ mUsers' = [mUsers EXCEPT ![g] = mStore]
    /\ mRef' = [mRef EXCEPT ![g] = "start"]
    /\ mQ' = Append(mQ, <<"load", g>>)
    /\ UNCHANGED <<mGames, mConn, mPermit, mWaitQ, mStore, mLoaded, mPersist>>

\* the write guard is granted to load: insert(game_id, game_state)
MLoadInsert(g) ==
    /\ mLoad[g] = "queued"
    /\ mQ # <<>> /\ Head(mQ) = <<"load", g>>
    /\ MReaders = {}
    /\ mGames' = mGames \cup {g}
    /\ mLoad' = [mLoad EXCEPT ![g] = "done"]
    /\ mQ' = Tail(mQ)
    /\ UNCHANGED <<mConn, mRef, mPermit, mWaitQ, mStore, mLoaded, mUsers, mPersist>>

\* ServerState::new_connection(user_id, g): games.read().await is granted at
\* once unless a writer is queued; the guard is held for the lookup only
MNewConnection(g) ==
    /\ mConn[g] = "none"
    /\ mLoad[g] = "done"
    /\ IF mQ = <<>>
       THEN /\ g \in mGames
            /\ mConn' = [mConn EXCEPT ![g] = "idle"]
            /\ UNCHANGED mQ
       ELSE /\ mConn' = [mConn EXCEPT ![g] = "conn_wait"]
            /\ mQ' = Append(mQ, <<"conn", g>>)
    /\ UNCHANGED <<mGames, mLoad, mRef, mPermit, mWaitQ, mStore, mLoaded, mUsers, mPersist>>

\* the queued read guard of new_connection is granted: Err(GameNotFound) if
\* the entry is gone
MConnGranted(g) ==
    /\ mConn[g] = "conn_wait"
    /\ mQ # <<>> /\ Head(mQ) = <<"conn", g>>
    /\ mQ' = Tail(mQ)
    /\ mConn' = [mConn EXCEPT ![g] = IF g \in mGames THEN "idle" ELSE "none"]
    /\ UNCHANGED <<mGames, mLoad, mRef, mPermit, mWaitQ, mStore, mLoaded, mUsers, mPersist>>

\* ClientConnectionRes::poll is called on the connection of game g
MPollStart(g) ==
    /\ mConn[g] = "idle"
    /\ IF mQ = <<>>
       THEN /\ mConn' = [mConn EXCEPT ![g] = IF g \in mGames THEN "select" ELSE "panicked"]
            /\ UNCHANGED mQ
       ELSE /\ mConn' = [mConn EXCEPT ![g] = "poll_wait"]
            /\ mQ' = Append(mQ, <<"poll", g>>)
    /\ UNCHANGED <<mGames, mLoad, mRef, mPermit, mWaitQ, mStore, mLoaded, mUsers, mPersist>>

\* the queued read guard of poll is granted
MPollGranted(g) ==
    /\ mConn[g] = "poll_wait"
    /\ mQ # <<>> /\ Head(mQ) = <<"poll", g>>
    /\ mQ' = Tail(mQ)
    /\ mConn' = [mConn EXCEPT ![g] = IF g \in mGames THEN "select" ELSE "panicked"]
    /\ UNCHANGED <<mGames, mLoad, mRef, mPermit, mWaitQ, mStore, mLoaded, mUsers, mPersist>>

\* a branch of select! completes and poll returns, dropping the read guard
MPollReturn(g) ==
    /\ mConn[g] = "select"
    /\ mConn' = [mConn EXCEPT ![g] = "idle"]
    /\ UNCHANGED <<mGames, mQ, mLoad, mRef, mPermit, mWaitQ, mStore, mLoaded, mUsers, mPersist>>

\* the backend's mapping changes and the external system calls
\* ServerConnectionReq::updated_user_data: update_user_data.notify_one() wakes
\* the longest-waiting notified() or, with none waiting, stores one permit
MUpdatedUserData ==
    /\ mStore < MaxTriggers
    /\ mStore' = mStore + 1
    /\ IF mWaitQ # <<>>
       THEN /\ mRef' = [mRef EXCEPT ![Head(mWaitQ)] = "load"]
            /\ mWaitQ' = Tail(mWaitQ)
            /\ UNCHANGED mPermit
       ELSE /\ mPermit' = TRUE
            /\ UNCHANGED <<mRef, mWaitQ>>
    /\ UNCHANGED <<mGames, mQ, mLoad, mConn, mLoaded, mUsers, mPersist>>

\* the refresh task of g reaches update_user_data.notified().await: a stored
\* permit is taken, otherwise the task waits
MRefreshNotified(g) ==
    /\ mRef[g] = "start"
    /\ IF mPermit
       THEN /\ mPermit' = FALSE
            /\ mRef' = [mRef EXCEPT ![g] = "load"]
            /\ UNCHANGED mWaitQ
       ELSE /\ mRef' = [mRef EXCEPT ![g] = "wait"]
            /\ mWaitQ' = Append(mWaitQ, g)
            /\ UNCHANGED mPermit
    /\ UNCHANGED <<mGames, mQ, mLoad, mConn, mStore, mLoaded, mUsers, mPersist>>

\* store.load_user_data().await (taken to succeed)
MRefreshLoad(g) ==
    /\ mRef[g] = "load"
    /\ mLoaded' = [mLoaded EXCEPT ![g] = mStore]
    /\ mRef' = [mRef EXCEPT ![g] = "write"]
    /\ UNCHANGED <<mGames, mQ, mLoad, mConn, mPermit, mWaitQ, mStore, mUsers, mPersist>>

\* state.write().await.users = <loaded>
MRefreshWrite(g) ==
    /\ mRef[g] = "write"
    /\ mUsers' = [mUsers EXCEPT ![g] = mLoaded[g]]
    /\ mRef' = [mRef EXCEPT ![g] = "notify"]
    /\ UNCHANGED <<mGames, mQ, mLoad, mConn, mPermit, mWaitQ, mStore, mLoaded, mPersist>>

\* updated_user_data.notify_waiters(); the loop starts over
MRefreshNotify(g) ==
    /\ mRef[g] = "notify"
    /\ mRef' = [mRef EXCEPT ![g] = "start"]
    /\ UNCHANGED <<mGames, mQ, mLoad, mConn, mPermit, mWaitQ, mStore, mLoaded, mUsers, mPersist>>

\* the persistence task of g leaves its loop: the tasks are aborted (a
\* waiting notified() is dropped) and `games.write().await` is queued
MTeardown(g) ==
    /\ mPersist[g] = "run"
    /\ mLoad[g] # "idle"
    /\ mPersist' = [mPersist EXCEPT ![g] = "queued"]
    /\ mRef' = [mRef EXCEPT ![g] = "aborted"]
    /\ mWaitQ' = SeqWithout(mWaitQ, g)
    /\ mQ' = Append(mQ, <<"remove", g>>)
    /\ UNCHANGED <<mGames, mLoad, mConn, mPermit, mStore, mLoaded, mUsers>>

\* the write guard is granted to the persistence task: remove(&game_id)
MRemove(g) ==
    /\ mPersist[g] = "queued"
    /\ mQ # <<>> /\ Head(mQ) = <<"remove", g>>
    /\ MReaders = {}
    /\ mGames' = mGames \ {g}
    /\ mPersist' = [mPersist EXCEPT ![g] = "done"]
    /\ mQ' = Tail(mQ)
    /\ UNCHANGED <<mLoad, mConn, mRef, mPermit, mWaitQ, mStore, mLoaded, mUsers>>

\* ------------------------------------------- EntitySet and EntityRefSet

\* the entities of the model
EntityVals == {0, 1}

\* IndexMap::swap_remove / IndexSet::swap_remove at position k: the last
\* element takes the place of the removed one
SwapRemoveAt(seq, k) ==
    IF k = Len(seq) THEN SubSeq(seq, 1, Len(seq) - 1)
    ELSE SubSeq([seq EXCEPT ![k] = seq[Len(seq)]], 1, Len(seq) - 1)

\* EntitySet::remove: self.entities.swap_remove(entity_ref)
EntitySetRemove(entities, entity_ref) ==
    IF entity_ref \in EntityKeys(entities)
    THEN SwapRemoveAt(entities, CHOOSE k \in 1..Len(entities) : entities[k][1] = entity_ref)
    ELSE entities

\* EntityRefSet::insert: IndexSet::insert appends an element it does not hold
RefSetInsert(refs, entity_ref) ==
    IF \E k \in 1..Len(refs) : refs[k] = entity_ref THEN refs ELSE Append(refs, entity_ref)

\* EntityRefSet::remove: self.entities.swap_remove(entity_ref)
RefSetRemove(refs, entity_ref) ==
    IF \E k \in 1..Len(refs) : refs[k] = entity_ref
    THEN SwapRemoveAt(refs, CHOOSE k \in 1..Len(refs) : refs[k] = entity_ref)
    ELSE refs

\* the callback of one pass: at its k-th call it writes val[k] into the
\* entity and returns flag[k]; the callbacks of the model mark every entity
\* they are called on with 1 and flag any of them
Callbacks(n) == [val : {[k \in 1..n |-> 1]}, flag : [1..n -> BOOLEAN]]

\* a bug: a flagged entity is removed at once (swap_remove) and the pass goes
\* on at the next position, so the entity moved into the gap is skipped
RECURSIVE ForEachMutRemovingFrom(_, _, _, _, _)
ForEachMutRemovingFrom(entities, f, k, n, calls) ==
    IF k > Len(entities) THEN [entities |-> entities, calls |-> calls, to_remove |-> {}]
    ELSE LET e == [entities EXCEPT ![k] = <<entities[k][1], f.val[n]>>]
             c == Append(calls, entities[k][1])
         IN  IF f.flag[n]
             THEN ForEachMutRemovingFrom(SwapRemoveAt(e, k), f, k + 1, n + 1, c)
             ELSE ForEachMutRemovingFrom(e, f, k + 1, n + 1, c)

ForEachMutRemoving(entities, f) == ForEachMutRemovingFrom(entities, f, 1, 1, <<>>)

\* the loop of for_each_mut from position k on: the callback is called on
\* the entity in place and a flagged EntityRef goes into to_remove
RECURSIVE ForEachMutFrom(_, _, _, _, _)
ForEachMutFrom(entities, f, k, to_remove, calls) ==
    IF k > Len(entities) THEN [entities |-> entities, calls |-> calls, to_remove |-> to_remove]
    ELSE ForEachMutFrom([entities EXCEPT ![k] = <<entities[k][1], f.val[k]>>], f, k + 1,
                        IF f.flag[k] THEN to_remove \cup {entities[k][1]} ELSE to_remove,
                        Append(calls, entities[k][1]))

\* EntitySet::for_each_mut: the pass, then retain(!to_remove.contains(..))
ForEachMut(entities, f) ==
    LET r == ForEachMutFrom(entities, f, 1, {}, <<>>)
    IN  [r EXCEPT !.entities = SelectSeq(r.entities, LAMBDA p : p[1] \notin r.to_remove)]

\* the position of a key that the map holds
IndexOf(entities, entity_ref) == CHOOSE k \in 1..Len(entities) : entities[k][1] = entity_ref

\* a bug: an EntityRef missing from the EntitySet stays in the derived set
RECURSIVE ForEachInMutKeepAbsentFrom(_, _, _, _, _, _, _)
ForEachInMutKeepAbsentFrom(entities, refs, f, k, n, to_remove, calls) ==
    IF k > Len(refs) THEN [entities |-> entities, calls |-> calls, to_remove |-> to_remove]
    ELSE IF refs[k] \in EntityKeys(entities)
         THEN LET i == IndexOf(entities, refs[k])
              IN  ForEachInMutKeepAbsentFrom([entities EXCEPT ![i] = <<refs[k], f.val[n]>>], refs, f,
                                   k + 1, n + 1,
                                   IF f.flag[n] THEN to_remove \cup {refs[k]} ELSE to_remove,
                                   Append(calls, refs[k]))
         ELSE ForEachInMutKeepAbsentFrom(entities, refs, f, k + 1, n, to_remove, calls)

ForEachInMutKeepAbsent(entities, refs, f) ==
    LET r == ForEachInMutKeepAbsentFrom(entities, refs, f, 1, 1, {}, <<>>)
    IN  [entities |-> SelectSeq(r.entities, LAMBDA p : p[1] \notin r.to_remove),
         refs |-> SelectSeq(refs, LAMBDA x : x \notin r.to_remove),
         calls |-> r.calls, to_remove |-> r.to_remove]

\* the loop of for_each_in_mut over the derived set from position k on, n
\* counting the calls of the callback: an EntityRef the EntitySet holds has
\* the callback called on its entity and is put into to_remove if flagged;
\* one it does not hold is put into to_remove
RECURSIVE ForEachInMutFrom(_, _, _, _, _, _, _)
ForEachInMutFrom(entities, refs, f, k, n, to_remove, calls) ==
    IF k > Len(refs) THEN [entities |-> entities, calls |-> calls, to_remove |-> to_remove]
    ELSE IF refs[k] \in EntityKeys(entities)
         THEN LET i == IndexOf(entities, refs[k])
              IN  ForEachInMutFrom([entities EXCEPT ![i] = <<refs[k], f.val[n]>>], refs, f,
                                   k + 1, n + 1,
                                   IF f.flag[n] THEN to_remove \cup {refs[k]} ELSE to_remove,
                                   Append(calls, refs[k]))
         ELSE ForEachInMutFrom(entities, refs, f, k + 1, n, to_remove \cup {refs[k]}, calls)

\* EntitySet::for_each_in_mut: the pass, then both retains
ForEachInMut(entities, refs, f) ==
    LET r == ForEachInMutFrom(entities, refs, f, 1, 1, {}, <<>>)
    IN  [entities |-> SelectSeq(r.entities, LAMBDA p : p[1] \notin r.to_remove),
         refs |-> SelectSeq(refs, LAMBDA x : x \notin r.to_remove),
         calls |-> r.calls, to_remove |-> r.to_remove]

\* EntitySet::default() and EntityRefSet::default()
EInit ==
    /\ eSet = <<>>
    /\ eRefs = <<>>
    /\ eOrder = <<>>
    /\ eGone = {}
    /\ eLast = <<>>

\* an operation that takes no callback
NoCallback == [val |-> <<>>, flag |-> <<>>]

Done(op, calls, f) ==
    << [op |-> op, set |-> eSet, refs |-> eRefs, calls |-> calls, f |-> f] >>

\* set.insert(entity): Uuid::new_v4() returns an identifier it has not
\* returned before
EInsert(entity) ==
    \E entity_ref \in EntityRefs \ {eOrder[k] : k \in 1..Len(eOrder)} :
       /\ eSet' = EntitySetInsert(eSet, entity_ref, entity)
       /\ eOrder' = Append(eOrder, entity_ref)
       /\ eLast' = Done("insert", <<>>, NoCallback)
       /\ UNCHANGED <<eRefs, eGone>>

\* set.remove(&entity_ref)
ERemove(entity_ref) ==
    /\ eSet' = EntitySetRemove(eSet, entity_ref)
    /\ eGone' = eGone \cup ({entity_ref} \cap EntityKeys(eSet))
    /\ eLast' = Done("remove", <<>>, NoCallback)
    /\ UNCHANGED <<eRefs, eOrder>>

\* refs.insert(entity_ref), with an EntityRef that insert returned earlier
ERefInsert(entity_ref) ==
    /\ entity_ref \in {eOrder[k] : k \in 1..Len(eOrder)}
    /\ eRefs' = RefSetInsert(eRefs, entity_ref)
    /\ eLast' = Done("ref_insert", <<>>, NoCallback)
    /\ UNCHANGED <<eSet, eOrder, eGone>>

\* refs.remove(&entity_ref)
ERefRemove(entity_ref) ==
    /\ eRefs' = RefSetRemove(eRefs, entity_ref)
    /\ eLast' = Done("ref_remove", <<>>, NoCallback)
    /\ UNCHANGED <<eSet, eOrder, eGone>>

\* set.for_each_mut(f)
EForEachMut(f) ==
    LET r == ForEachMut(eSet, f)
    IN  /\ eSet' = r.entities
        /\ eGone' = eGone \cup r.to_remove
        /\ eLast' = Done("for_each_mut", r.calls, f)
        /\ UNCHANGED <<eRefs, eOrder>>

\* set.for_each_in_mut(&mut refs, f)
EForEachInMut(f) ==
    LET r == ForEachInMut(eSet, eRefs, f)
    IN  /\ eSet' = r.entities
        /\ eRefs' = r.refs
        /\ eGone' = eGone \cup (r.to_remove \cap EntityKeys(eSet))
        /\ eLast' = Done("for_each_in_mut", r.calls, f)
        /\ UNCHANGED eOrder

\* ------------------------------------------------------------------ Qty

Resources == {"A", "B"}

\* amounts are u64 in the source: 0 .. QtyMod - 1
QtyMod == 2 ^ QtyBits

\* the sequences of distinct resources
KeySeqs ==
    {ks \in UNION {[1..n -> Resources] : n \in 0..Cardinality(Resources)} :
        \A i \in 1..Len(ks), j \in 1..Len(ks) : ks[i] = ks[j] => i = j}

\* the Qty values: a CustomMap from resource to amount
Qtys ==
    UNION {{[i \in 1..Len(ks) |-> <<ks[i], vs[i]>>] : vs \in [1..Len(ks) -> 0..(QtyMod - 1)]} :
              ks \in KeySeqs}

QtyKeys(q) == {q[i][1] : i \in 1..Len(q)}

\* the iteration orders of keys().chain(keys()).collect::<FxHashSet<T>>()
KeyOrders(a, b) == {ks \in KeySeqs : {ks[i] : i \in 1..Len(ks)} = QtyKeys(a) \cup QtyKeys(b)}

\* Qty::get, and get(..).copied().unwrap_or_default()
QtyGet(q, resource) ==
    LET v == MapGet(q, resource) IN IF v = <<>> THEN 0 ELSE v[1]

\* entry(resource).or_default(): the resource gets a 0 entry if it has none
QtyEntry(q, resource) ==
    IF resource \in QtyKeys(q) THEN q ELSE Append(q, <<resource, 0>>)

QtyStore(q, resource, num) ==
    [i \in 1..Len(q) |-> IF q[i][1] = resource THEN <<resource, num>> ELSE q[i]]

\* a bug: only the resources of self are compared
RECURSIVE CoversOwnKeysFrom(_, _, _)
CoversOwnKeysFrom(self, cost, order) ==
    IF order = <<>> THEN TRUE
    ELSE IF Head(order) \in QtyKeys(self) /\ QtyGet(self, Head(order)) < QtyGet(cost, Head(order))
         THEN FALSE
    ELSE CoversOwnKeysFrom(self, cost, Tail(order))

\* Qty::covers: the loop over the resources of both operands, which returns
\* false at the first resource of which self has less
RECURSIVE Covers(_, _, _)
Covers(self, cost, order) ==
    IF order = <<>> THEN TRUE
    ELSE IF QtyGet(self, Head(order)) < QtyGet(cost, Head(order)) THEN FALSE
    ELSE Covers(self, cost, Tail(order))

\* the builds: with overflow checks (+= and -= panic on overflow) and
\* without (they wrap)
Builds == {"checked", "wrapping"}

\* a bug: the subtraction stops at zero
RECURSIVE QtyArithSaturating(_, _, _, _, _)
QtyArithSaturating(self, rhs, order, sign, build) ==
    IF order = <<>> THEN [panic |-> FALSE, q |-> self]
    ELSE LET resource == Head(order)
             s == QtyEntry(self, resource)
             z == QtyGet(s, resource) + sign * QtyGet(rhs, resource)
             sat == IF z < 0 THEN 0 ELSE IF z >= QtyMod THEN QtyMod - 1 ELSE z
         IN  QtyArithSaturating(QtyStore(s, resource, sat), rhs, Tail(order), sign, build)

\* the loop shared by add, sub, add_assign and sub_assign (sign 1 or -1):
\* *self.0.entry(resource).or_default() op= *rhs.0.entry(resource).or_default()
\* on u64, for every resource of both operands
RECURSIVE QtyArith(_, _, _, _, _)
QtyArith(self, rhs, order, sign, build) ==
    IF order = <<>> THEN [panic |-> FALSE, q |-> self]
    ELSE LET resource == Head(order)
             s == QtyEntry(self, resource)
             z == QtyGet(s, resource) + sign * QtyGet(rhs, resource)
         IN  IF (z < 0 \/ z >= QtyMod) /\ build = "checked"
             THEN [panic |-> TRUE, q |-> s]
             ELSE QtyArith(QtyStore(s, resource, z % QtyMod), rhs, Tail(order), sign, build)

\* no Qty operation is running in the other specifications
QIdle ==
    /\ qa = <<>>
    /\ qb = <<>>
    /\ qres = <<>>

\* any two Qty values
QInit ==
    /\ qa \in Qtys
    /\ qb \in Qtys
    /\ qres = <<>>

QDone(op, panic, q, covers) ==
    << [op |-> op, a |-> qa, b |-> qb, panic |-> panic, q |-> q, covers |-> covers,
        eq |-> FALSE] >>

\* qa.covers(&qb)
QCovers(order) ==
    /\ qres' = QDone("covers", FALSE, <<>>, Covers(qa, qb, order))
    /\ UNCHANGED <<qa, qb>>

\* qa.clone() + qb.clone()
QAdd(order, build) ==
    LET r == QtyArith(qa, qb, order, 1, build)
    IN  /\ qres' = QDone("add", r.panic, r.q, FALSE)
        /\ UNCHANGED <<qa, qb>>

\* qa.clone() - qb.clone()
QSub(order, build) ==
    LET r == QtyArith(qa, qb, order, -1, build)
    IN  /\ qres' = QDone("sub", r.panic, r.q, FALSE)
        /\ UNCHANGED <<qa, qb>>

\* qa += qb.clone()
QAddAssign(order, build) ==
    LET r == QtyArith(qa, qb, order, 1, build)
    IN  /\ qres' = QDone("add_assign", r.panic, r.q, FALSE)
        /\ qa' = r.q
        /\ UNCHANGED qb

\* qa -= qb.clone()
QSubAssign(order, build) ==
    LET r == QtyArith(qa, qb, order, -1, build)
    IN  /\ qres' = QDone("sub_assign", r.panic, r.q, FALSE)
        /\ qa' = r.q
        /\ UNCHANGED qb

\* Qty == Qty: the derived PartialEq compares the two CustomMaps, whose
\* derived PartialEq compares the two IndexMaps: the same number of entries
\* and every entry of the one found in the other with an equal value, in
\* whatever order
QtyEq(a, b) ==
    /\ Len(a) = Len(b)
    /\ \A i \in 1..Len(a) : MapGet(b, a[i][1]) = << a[i][2] >>

QCompared(op, panic, q, eq) ==
    << [op |-> op, a |-> qa, b |-> qb, panic |-> panic, q |-> q, covers |-> FALSE,
        eq |-> eq] >>

\* qa == qb
QEq ==
    /\ qres' = QCompared("eq", FALSE, <<>>, QtyEq(qa, qb))
    /\ UNCHANGED <<qa, qb>>

\* (qa.clone() + qb.clone()) - qb.clone() == qa
QAddThenSub(order, order2, build) ==
    LET s == QtyArith(qa, qb, order, 1, build)
        d == QtyArith(s.q, qb, order2, -1, build)
    IN  /\ qres' = IF s.panic THEN QCompared("add_sub", TRUE, s.q, FALSE)
                   ELSE QCompared("add_sub", d.panic, d.q, ~d.panic /\ QtyEq(d.q, qa))
        /\ UNCHANGED <<qa, qb>>

\* qa.clone() + Qty::default() == qa
QAddDefault(order, build) ==
    LET s == QtyArith(qa, <<>>, order, 1, build)
    IN  /\ qres' = QCompared("add_default", s.panic, s.q, ~s.panic /\ QtyEq(s.q, qa))
        /\ UNCHANGED <<qa, qb>>

\* ------------------------------------- the calls of load and create

LoadCalls == 1..MaxLoads

\* ServerState::new: no call yet, an empty map
LInit ==
    /\ lGame = [i \in LoadCalls |-> 0]
    /\ lPc = [i \in LoadCalls |-> "none"]
    /\ lTasks = [i \in LoadCalls |-> "none"]
    /\ lPer = [i \in LoadCalls |-> "none"]
    /\ lMap = [g \in Games |-> 0]

\* the data structures and calls that the specifications of the running
\* system leave idle
\* no answer handed over yet
DInit ==
    /\ held = {wrapper}
    /\ snapLen = [c \in Conns |-> 0]

XInit == LInit /\ EInit /\ QIdle /\ DInit

\* the calls are numbered in the order they are made
NextCall(i) == lPc[i] = "none" /\ \A j \in LoadCalls : j < i => lPc[j] # "none"

\* ServerState::load(game_id) is called: the channels are created and
\* store.load_game(game_id) is awaited; nothing looks at the live-games map
LLoad(i, g) ==
    /\ NextCall(i)
    /\ lGame' = [lGame EXCEPT ![i] = g]
    /\ lPc' = [lPc EXCEPT ![i] = "load_game"]
    /\ UNCHANGED <<lTasks, lPer, lMap>>

\* ServerState::create() is called: store.create_game() is awaited
LCreate(i) ==
    /\ NextCall(i)
    /\ lPc' = [lPc EXCEPT ![i] = "create_game"]
    /\ UNCHANGED <<lGame, lTasks, lPer, lMap>>

\* store.create_game().await?: a new game id, or the error is returned
LCreateGame(i, ok) ==
    /\ lPc[i] = "create_game"
    /\ IF ok
       THEN \E g \in Games \ {lGame[j] : j \in LoadCalls} :
               /\ lGame' = [lGame EXCEPT ![i] = g]
               /\ lPc' = [lPc EXCEPT ![i] = "load_game"]
       ELSE /\ lPc' = [lPc EXCEPT ![i] = "failed"]
            /\ UNCHANGED lGame
    /\ UNCHANGED <<lTasks, lPer, lMap>>

\* store.load_game(game_id).await?
LLoadGame(i, ok) ==
    /\ lPc[i] = "load_game"
    /\ lPc' = [lPc EXCEPT ![i] = IF ok THEN "load_user_data" ELSE "failed"]
    /\ UNCHANGED <<lGame, lTasks, lPer, lMap>>

\* a bug: the tasks are spawned before the user data is loaded, and a
\* failure leaves them running
LLoadUserDataAfterSpawn(i, ok) ==
    /\ lPc[i] = "load_user_data"
    /\ lPc' = [lPc EXCEPT ![i] = IF ok THEN "spawned" ELSE "failed"]
    /\ lTasks' = [lTasks EXCEPT ![i] = "run"]
    /\ lPer' = [lPer EXCEPT ![i] = "run"]
    /\ UNCHANGED <<lGame, lMap>>

\* store.load_user_data().await?; on success the four tasks are spawned
\* and load reaches `self.games.write().await`
LLoadUserData(i, ok) ==
    /\ lPc[i] = "load_user_data"
    /\ IF ok
       THEN /\ lPc' = [lPc EXCEPT ![i] = "spawned"]
            /\ lTasks' = [lTasks EXCEPT ![i] = "run"]
            /\ lPer' = [lPer EXCEPT ![i] = "run"]
       ELSE /\ lPc' = [lPc EXCEPT ![i] = "failed"]
            /\ UNCHANGED <<lTasks, lPer>>
    /\ UNCHANGED <<lGame, lMap>>

\* the write guard is granted to load: insert(game_id, game_state) puts this
\* call's entry under the game id, replacing any entry there; Ok(()) is
\* returned
LInsert(i) ==
    /\ lPc[i] = "spawned"
    /\ lMap' = [lMap EXCEPT ![lGame[i]] = i]
    /\ lPc' = [lPc EXCEPT ![i] = "done"]
    /\ UNCHANGED <<lGame, lTasks, lPer>>

\* store.save_game(..).await? fails: the persistence task ends there
LSaveFail(i) ==
    /\ lPer[i] = "run"
    /\ lPer' = [lPer EXCEPT ![i] = "failed"]
    /\ UNCHANGED <<lGame, lPc, lTasks, lMap>>

\* the persistence task leaves its loop and aborts the three other tasks
LPersistEnd(i) ==
    /\ lPer[i] = "run"
    /\ lPer' = [lPer EXCEPT ![i] = "remove"]
    /\ lTasks' = [lTasks EXCEPT ![i] = "aborted"]
    /\ UNCHANGED <<lGame, lPc, lMap>>

\* games.write().await.remove(&game_id): the entry under the game id goes,
\* whichever call inserted it
LRemove(i) ==
    /\ lPer[i] = "remove"
    /\ lMap' = [lMap EXCEPT ![lGame[i]] = 0]
    /\ lPer' = [lPer EXCEPT ![i] = "done"]
    /\ UNCHANGED <<lGame, lPc, lTasks>>

\* -------------------------------------------------------- specifications

UNext == (\E d \in EventDatas : UUpdateChecked(d)) /\ UNCHANGED <<cvars, svars, mvars, xvars>>

\* update_checked called on any wrapper with any event data
InitUpd == UInit /\ CInit /\ SIdle /\ MInit /\ XInit

SpecUpd == InitUpd /\ [][UNext]_vars

\* update_checked called on two copies of a wrapper with the same event data
PairNext == (\E event \in Events, seed \in Seeds : PairUpdateChecked(event, seed)) /\ UNCHANGED <<cvars, svars, mvars, xvars>>

InitPair == UIdle /\ CInit /\ SIdle /\ MInit /\ XInit

SpecPair == InitPair /\ [][PairNext]_vars

\* the messages the client application handles; the rest of the system is idle
ClientNext ==
    \/ WebSocketOpened /\ UNCHANGED <<uvars, svars, mvars, xvars>>
    \/ CloseWebSocket /\ UNCHANGED <<uvars, svars, mvars, xvars>>
    \/ \E was_clean \in BOOLEAN, code \in CloseCodes : WebSocketClosed(was_clean, code) /\ UNCHANGED <<uvars, svars, mvars, xvars>>
    \/ WebSocketFailed /\ UNCHANGED <<uvars, svars, mvars, xvars>>
    \/ ReconnectWebSocket /\ UNCHANGED <<uvars, svars, mvars, xvars>>
    \/ \E e \in ClientEvents : SendGameEvent(e) /\ UNCHANGED <<uvars, svars, mvars, xvars>>
    \/ \E sync_data \in SyncDatas : InitGameState(sync_data) /\ UNCHANGED <<uvars, svars, mvars, xvars>>
    \/ \E d \in EventDatas : ReceiveGameEvent(d) /\ UNCHANGED <<uvars, svars, mvars, xvars>>
    \/ \E map \in UserMaps : UserUpdate(map) /\ UNCHANGED <<uvars, svars, mvars, xvars>>

InitClient == UIdle /\ CInit /\ SIdle /\ MInit /\ XInit

SpecClient == InitClient /\ [][ClientNext]_vars

\* the steps of the orchestrator of one game and of its connections
Next ==
    \/ LoadAcquire /\ UNCHANGED <<uvars, cvars, mvars, xvars>>
    \/ LoadInsert /\ UNCHANGED <<uvars, cvars, mvars, xvars>>
    \/ TickFire /\ UNCHANGED <<uvars, cvars, mvars, xvars>>
    \/ UpdatedUserData /\ UNCHANGED <<uvars, cvars, mvars, xvars>>
    \/ RefreshWake /\ UNCHANGED <<uvars, cvars, mvars, xvars>>
    \/ RefreshLoad /\ UNCHANGED <<uvars, cvars, mvars, xvars>>
    \/ RefreshWrite /\ UNCHANGED <<uvars, cvars, mvars, xvars>>
    \/ RefreshNotify /\ UNCHANGED <<uvars, cvars, mvars, xvars>>
    \/ EventRecv /\ UNCHANGED <<uvars, cvars, mvars, xvars>>
    \/ EventLock /\ UNCHANGED <<uvars, cvars, mvars, xvars>>
    \/ EventApply /\ UNCHANGED <<uvars, cvars, mvars, xvars>>
    \/ EventUpdatePanics /\ UNCHANGED <<uvars, cvars, mvars, xvars>>
    \/ PersistRecv /\ UNCHANGED <<uvars, cvars, mvars, xvars>>
    \/ PersistSave /\ UNCHANGED <<uvars, cvars, mvars, xvars>>
    \/ PersistRemove /\ UNCHANGED <<uvars, cvars, mvars, xvars>>
    \/ \E c \in Conns, u \in ConnUsers : NewConnection(c, u) /\ UNCHANGED <<uvars, cvars, mvars, xvars>>
    \/ \E c \in Conns, e \in RequestedEvents : RequestEvent(c, e) /\ UNCHANGED <<uvars, cvars, mvars, xvars>>
    \/ \E c \in Conns : RequestSync(c) /\ UNCHANGED <<uvars, cvars, mvars, xvars>>
    \/ \E c \in Conns : PollStart(c) /\ UNCHANGED <<uvars, cvars, mvars, xvars>>
    \/ \E c \in Conns : PollGranted(c) /\ UNCHANGED <<uvars, cvars, mvars, xvars>>
    \/ \E c \in Conns : PollSync(c) /\ UNCHANGED <<uvars, cvars, mvars, xvars>>
    \/ \E c \in Conns : PollUsers(c) /\ UNCHANGED <<uvars, cvars, mvars, xvars>>
    \/ \E c \in Conns : PollRecv(c) /\ UNCHANGED <<uvars, cvars, mvars, xvars>>
    \/ \E c \in Conns : PollRead(c) /\ UNCHANGED <<uvars, cvars, mvars, xvars>>

Init == UIdle /\ CInit /\ SInit /\ MInit /\ XInit

Spec == Init /\ [][Next]_vars

\* The scheduling the runtime gives: every spawned task and every pending lock
\* request makes progress (tokio's RwLock is first in first out), select!
\* starts at a random branch, so a branch that is ready again and again is
\* taken, and the caller of poll calls it again after each answer.  Requests,
\* new connections and the refresh trigger come from outside and get none.
Fairness ==
    /\ WF_svars(LoadAcquire) /\ WF_svars(LoadInsert)
    /\ WF_svars(TickFire)
    /\ WF_svars(RefreshWake) /\ WF_svars(RefreshLoad)
    /\ SF_svars(RefreshWrite) /\ WF_svars(RefreshNotify)
    /\ WF_svars(EventRecv) /\ SF_svars(EventLock) /\ WF_svars(EventApply)
    /\ WF_svars(PersistRecv) /\ WF_svars(PersistSave) /\ WF_svars(PersistRemove)
    /\ \A c \in Conns :
          /\ WF_svars(PollStart(c)) /\ WF_svars(PollGranted(c))
          /\ SF_svars(PollSync(c)) /\ SF_svars(PollUsers(c)) /\ SF_svars(PollRecv(c))
          /\ SF_svars(PollRead(c))

\* the server while nobody calls the refresh trigger: the refresh task waits
\* in notified() throughout
LiveNext ==
    \/ LoadAcquire /\ UNCHANGED <<uvars, cvars, mvars, xvars>>
    \/ LoadInsert /\ UNCHANGED <<uvars, cvars, mvars, xvars>>
    \/ TickFire /\ UNCHANGED <<uvars, cvars, mvars, xvars>>
    \/ EventRecv /\ UNCHANGED <<uvars, cvars, mvars, xvars>>
    \/ EventLock /\ UNCHANGED <<uvars, cvars, mvars, xvars>>
    \/ EventApply /\ UNCHANGED <<uvars, cvars, mvars, xvars>>
    \/ PersistRecv /\ UNCHANGED <<uvars, cvars, mvars, xvars>>
    \/ PersistSave /\ UNCHANGED <<uvars, cvars, mvars, xvars>>
    \/ PersistRemove /\ UNCHANGED <<uvars, cvars, mvars, xvars>>
    \/ \E c \in Conns, u \in ConnUsers : NewConnection(c, u) /\ UNCHANGED <<uvars, cvars, mvars, xvars>>
    \/ \E c \in Conns, e \in RequestedEvents : RequestEvent(c, e) /\ UNCHANGED <<uvars, cvars, mvars, xvars>>
    \/ \E c \in Conns : RequestSync(c) /\ UNCHANGED <<uvars, cvars, mvars, xvars>>
    \/ \E c \in Conns : PollStart(c) /\ UNCHANGED <<uvars, cvars, mvars, xvars>>
    \/ \E c \in Conns : PollGranted(c) /\ UNCHANGED <<uvars, cvars, mvars, xvars>>
    \/ \E c \in Conns : PollSync(c) /\ UNCHANGED <<uvars, cvars, mvars, xvars>>
    \/ \E c \in Conns : PollRecv(c) /\ UNCHANGED <<uvars, cvars, mvars, xvars>>
    \/ \E c \in Conns : PollRead(c) /\ UNCHANGED <<uvars, cvars, mvars, xvars>>

FairSpec == Init /\ [][LiveNext]_vars /\ Fairness

\* the registry and the refresh signal of one ServerState with two games
GamesNext ==
    \/ \E g \in Games : MLoadSpawn(g) /\ UNCHANGED <<uvars, cvars, svars, xvars>>
    \/ \E g \in Games : MLoadInsert(g) /\ UNCHANGED <<uvars, cvars, svars, xvars>>
    \/ \E g \in Games : MNewConnection(g) /\ UNCHANGED <<uvars, cvars, svars, xvars>>
    \/ \E g \in Games : MConnGranted(g) /\ UNCHANGED <<uvars, cvars, svars, xvars>>
    \/ \E g \in Games : MPollStart(g) /\ UNCHANGED <<uvars, cvars, svars, xvars>>
    \/ \E g \in Games : MPollGranted(g) /\ UNCHANGED <<uvars, cvars, svars, xvars>>
    \/ \E g \in Games : MPollReturn(g) /\ UNCHANGED <<uvars, cvars, svars, xvars>>
    \/ MUpdatedUserData /\ UNCHANGED <<uvars, cvars, svars, xvars>>
    \/ \E g \in Games : MRefreshNotified(g) /\ UNCHANGED <<uvars, cvars, svars, xvars>>
    \/ \E g \in Games : MRefreshLoad(g) /\ UNCHANGED <<uvars, cvars, svars, xvars>>
    \/ \E g \in Games : MRefreshWrite(g) /\ UNCHANGED <<uvars, cvars, svars, xvars>>
    \/ \E g \in Games : MRefreshNotify(g) /\ UNCHANGED <<uvars, cvars, svars, xvars>>
    \/ \E g \in Games : MTeardown(g) /\ UNCHANGED <<uvars, cvars, svars, xvars>>
    \/ \E g \in Games : MRemove(g) /\ UNCHANGED <<uvars, cvars, svars, xvars>>

InitGames == UIdle /\ CInit /\ SIdle /\ MInit /\ XInit

\* every call of load, every granted lock request and every refresh task
\* makes progress; connections, polls' answers, the trigger and the teardown
\* come when they come
GamesFairness ==
    \A g \in Games :
       /\ WF_mvars(MLoadSpawn(g)) /\ WF_mvars(MLoadInsert(g))
       /\ WF_mvars(MConnGranted(g)) /\ WF_mvars(MPollGranted(g))
       /\ WF_mvars(MRefreshNotified(g)) /\ WF_mvars(MRefreshLoad(g))
       /\ WF_mvars(MRefreshWrite(g)) /\ WF_mvars(MRefreshNotify(g))
       /\ WF_mvars(MRemove(g))

SpecGames == InitGames /\ [][GamesNext]_vars /\ GamesFairness

\* load and create called on one ServerState, their stores failing or not,
\* and the persistence tasks ending
LoadsNext ==
    \/ \E i \in LoadCalls, g \in Games : LLoad(i, g) /\ UNCHANGED <<uvars, cvars, svars, mvars, evars, qvars, dvars>>
    \/ \E i \in LoadCalls : LCreate(i) /\ UNCHANGED <<uvars, cvars, svars, mvars, evars, qvars, dvars>>
    \/ \E i \in LoadCalls, ok \in BOOLEAN : LCreateGame(i, ok) /\ UNCHANGED <<uvars, cvars, svars, mvars, evars, qvars, dvars>>
    \/ \E i \in LoadCalls, ok \in BOOLEAN : LLoadGame(i, ok) /\ UNCHANGED <<uvars, cvars, svars, mvars, evars, qvars, dvars>>
    \/ \E i \in LoadCalls, ok \in BOOLEAN : LLoadUserData(i, ok) /\ UNCHANGED <<uvars, cvars, svars, mvars, evars, qvars, dvars>>
    \/ \E i \in LoadCalls : LInsert(i) /\ UNCHANGED <<uvars, cvars, svars, mvars, evars, qvars, dvars>>
    \/ \E i \in LoadCalls : LSaveFail(i) /\ UNCHANGED <<uvars, cvars, svars, mvars, evars, qvars, dvars>>
    \/ \E i \in LoadCalls : LPersistEnd(i) /\ UNCHANGED <<uvars, cvars, svars, mvars, evars, qvars, dvars>>
    \/ \E i \in LoadCalls : LRemove(i) /\ UNCHANGED <<uvars, cvars, svars, mvars, evars, qvars, dvars>>

InitLoads == UIdle /\ CInit /\ SIdle /\ MInit /\ XInit

SpecLoads == InitLoads /\ [][LoadsNext]_vars

\* the operations of an EntitySet and of an EntityRefSet derived from it
EntitiesNext ==
    \/ \E entity \in EntityVals : EInsert(entity) /\ UNCHANGED <<uvars, cvars, svars, mvars, lvars, qvars, dvars>>
    \/ \E entity_ref \in EntityRefs : ERemove(entity_ref) /\ UNCHANGED <<uvars, cvars, svars, mvars, lvars, qvars, dvars>>
    \/ \E entity_ref \in EntityRefs : ERefInsert(entity_ref) /\ UNCHANGED <<uvars, cvars, svars, mvars, lvars, qvars, dvars>>
    \/ \E entity_ref \in EntityRefs : ERefRemove(entity_ref) /\ UNCHANGED <<uvars, cvars, svars, mvars, lvars, qvars, dvars>>
    \/ \E f \in Callbacks(Len(eSet)) : EForEachMut(f) /\ UNCHANGED <<uvars, cvars, svars, mvars, lvars, qvars, dvars>>
    \/ \E f \in Callbacks(Len(eRefs)) : EForEachInMut(f) /\ UNCHANGED <<uvars, cvars, svars, mvars, lvars, qvars, dvars>>

InitEntities == UIdle /\ CInit /\ SIdle /\ MInit /\ XInit

SpecEntities == InitEntities /\ [][EntitiesNext]_vars

\* the operations of Qty on any two values
QtyNext ==
    \/ \E order \in KeyOrders(qa, qb) : QCovers(order) /\ UNCHANGED <<uvars, cvars, svars, mvars, lvars, evars, dvars>>
    \/ \E order \in KeyOrders(qa, qb), build \in Builds : QAdd(order, build) /\ UNCHANGED <<uvars, cvars, svars, mvars, lvars, evars, dvars>>
    \/ \E order \in KeyOrders(qa, qb), build \in Builds : QSub(order, build) /\ UNCHANGED <<uvars, cvars, svars, mvars, lvars, evars, dvars>>
    \/ \E order \in KeyOrders(qa, qb), build \in Builds : QAddAssign(order, build) /\ UNCHANGED <<uvars, cvars, svars, mvars, lvars, evars, dvars>>
    \/ \E order \in KeyOrders(qa, qb), build \in Builds : QSubAssign(order, build) /\ UNCHANGED <<uvars, cvars, svars, mvars, lvars, evars, dvars>>

InitQty == UIdle /\ CInit /\ SIdle /\ MInit /\ LInit /\ EInit /\ QInit /\ DInit

SpecQty == InitQty /\ [][QtyNext]_vars

\* the comparisons of Qty values, of any two values
QtyEqNext ==
    \/ QEq /\ UNCHANGED <<uvars, cvars, svars, mvars, lvars, evars, dvars>>
    \/ \E order \in KeyOrders(qa, qb), order2 \in KeyOrders(qa, qb), build \in Builds : QAddThenSub(order, order2, build) /\ UNCHANGED <<uvars, cvars, svars, mvars, lvars, evars, dvars>>
    \/ \E order \in KeyOrders(qa, <<>>), build \in Builds : QAddDefault(order, build) /\ UNCHANGED <<uvars, cvars, svars, mvars, lvars, evars, dvars>>

InitQtyEq == UIdle /\ CInit /\ SIdle /\ MInit /\ LInit /\ EInit /\ QInit /\ DInit

SpecQtyEq == InitQtyEq /\ [][QtyEqNext]_vars

\* ---- one game, one connection and the client behind it

\* poll returned in this step
Returned(c) == pollRes'[c] # <<>> /\ pollRes'[c] # pollRes[c]

\* the answer poll returned reaches ClientState::update as the EventWrapper
\* of its kind; None ends the stream
Deliver(c) ==
    IF ~Returned(c) \/ pollRes'[c][1].via = "closed"
    THEN UNCHANGED cvars
    ELSE LET res == pollRes'[c][1].res
         IN  IF res.kind = "Sync" THEN InitGameState(res.data)
             ELSE IF res.kind = "Event" THEN ReceiveGameEvent(res.data)
             ELSE UserUpdate(res.data)

\* the history of the wrapper's values and of the snapshots handed out
Track ==
    /\ held' = held \cup {wrapper'}
    /\ snapLen' = [c \in Conns |->
          IF Returned(c) /\ pollRes'[c][1].via \in {"sync", "lag"}
          THEN Len(appliedLog')
          ELSE snapLen[c]]

\* the tasks of a loaded game that keeps running, its connection, and the
\* client that handles every answer of poll in the order poll returned it
SessionNext ==
    \/ WebSocketOpened /\ UNCHANGED <<uvars, svars, mvars, lvars, evars, qvars, dvars>>
    \/ LoadAcquire /\ Track /\ UNCHANGED <<uvars, cvars, mvars, lvars, evars, qvars>>
    \/ LoadInsert /\ Track /\ UNCHANGED <<uvars, cvars, mvars, lvars, evars, qvars>>
    \/ TickFire /\ Track /\ UNCHANGED <<uvars, cvars, mvars, lvars, evars, qvars>>
    \/ UpdatedUserData /\ Track /\ UNCHANGED <<uvars, cvars, mvars, lvars, evars, qvars>>
    \/ RefreshWake /\ Track /\ UNCHANGED <<uvars, cvars, mvars, lvars, evars, qvars>>
    \/ RefreshLoad /\ Track /\ UNCHANGED <<uvars, cvars, mvars, lvars, evars, qvars>>
    \/ RefreshWrite /\ Track /\ UNCHANGED <<uvars, cvars, mvars, lvars, evars, qvars>>
    \/ RefreshNotify /\ Track /\ UNCHANGED <<uvars, cvars, mvars, lvars, evars, qvars>>
    \/ EventRecv /\ Track /\ UNCHANGED <<uvars, cvars, mvars, lvars, evars, qvars>>
    \/ EventLock /\ Track /\ UNCHANGED <<uvars, cvars, mvars, lvars, evars, qvars>>
    \/ EventApply /\ Track /\ UNCHANGED <<uvars, cvars, mvars, lvars, evars, qvars>>
    \/ \E c \in Conns, u \in ConnUsers : NewConnection(c, u) /\ Track /\ UNCHANGED <<uvars, cvars, mvars, lvars, evars, qvars>>
    \/ \E c \in Conns : RequestSync(c) /\ Track /\ UNCHANGED <<uvars, cvars, mvars, lvars, evars, qvars>>
    \/ \E c \in Conns : PollStart(c) /\ Track /\ UNCHANGED <<uvars, cvars, mvars, lvars, evars, qvars>>
    \/ \E c \in Conns : PollSync(c) /\ Track /\ UNCHANGED <<uvars, cvars, mvars, lvars, evars, qvars>>
    \/ \E c \in Conns : PollUsers(c) /\ Track /\ UNCHANGED <<uvars, cvars, mvars, lvars, evars, qvars>>
    \/ \E c \in Conns : PollRecv(c) /\ Deliver(c) /\ Track /\ UNCHANGED <<uvars, mvars, lvars, evars, qvars>>
    \/ \E c \in Conns : PollRead(c) /\ Deliver(c) /\ Track /\ UNCHANGED <<uvars, mvars, lvars, evars, qvars>>

InitSession == UIdle /\ CInit /\ SInit /\ MInit /\ XInit

SpecSession == InitSession /\ [][SessionNext]_vars

\* ----------------------------------------------------------------- claims

\* C1: a call of update_checked whose state_checksum differs from the
\* wrapper's checksum returns InvalidChecksum, invokes State::update zero
\* times and leaves state and users as they were.
C1_RejectionIsPure ==
    ucall # <<>> /\ ucall[1].d.state_checksum # Checksum(ucall[1].pre)
        => /\ ucall[1].res = "InvalidChecksum"
           /\ ucall[1].updates = 0
           /\ uw.state = ucall[1].pre.state
           /\ uw.users = ucall[1].pre.users

\* a rejected call whose event would have changed the state had it run
C1_Witness ==
    /\ ucall # <<>>
    /\ ucall[1].res = "InvalidChecksum"
    /\ UpdateCheckedUpdateFirst(ucall[1].pre, ucall[1].d).w # ucall[1].pre

\* C2: the event task's own update_checked never fails: while it holds the
\* write guard, the checksum it put in the EventData is the checksum of the
\* whole wrapper, and the panic branch is never taken.
C2_EventTaskNeverRejects ==
    /\ evPc # "panicked"
    /\ evPc = "apply" => stateLock = "event" /\ evChecksum = Checksum(wrapper)

\* the event task holds the guard on a state that already took an event,
\* while the refresh task waits to store a reloaded mapping
C2_Witness ==
    /\ evPc = "apply"
    /\ refPc = "write"
    /\ Len(sentLog) >= 1

\* C3: the events applied are, in order and each once, the first events
\* enqueued, and the Res::Event broadcasts are one per applied event in the
\* same order.
C3_AppliedInEnqueueOrder ==
    /\ Len(appliedLog) <= Len(enqLog)
    /\ \A i \in 1..Len(appliedLog) :
          appliedLog[i] = [id |-> i, event |-> enqLog[i]]
    /\ Len(sentLog) = Len(appliedLog)
    /\ \A i \in 1..Len(sentLog) : sentLog[i] = appliedLog[i]
    /\ \A i \in 1..Len(bcast) :
          /\ bcast[i].kind = "Event"
          /\ bcast[i].data.event = sentLog[Len(sentLog) - Len(bcast) + i].event

\* a client event and a tick, enqueued in that order, both applied and broadcast
C3_Witness ==
    /\ Len(appliedLog) = 2
    /\ appliedLog[1].event.kind = "ClientEvent"
    /\ appliedLog[2].event.kind = "ServerEvent"
    /\ Len(sentLog) = 2

\* the step in which the event task runs update_checked
EventApplyStep == evPc = "apply" /\ evPc' # "apply"
\* the step in which the refresh task stores the reloaded mapping
RefreshWriteStep == refPc = "write" /\ refPc' = "notify"

\* C4: the domain-state field changes only in a step of the event task; any
\* other change of the wrapper is a step of the refresh task, which changes the
\* users field only; tick, persistence, request and poll steps change nothing
\* of it.
C4_OnlyEventTaskWritesState ==
    [][ /\ wrapper'.state # wrapper.state => EventApplyStep
        /\ wrapper' # wrapper => EventApplyStep \/ RefreshWriteStep
        /\ RefreshWriteStep => wrapper'.state = wrapper.state
        /\ EventApplyStep => wrapper'.users = wrapper.users
      ]_vars

\* the refresh task has just stored a mapping in a wrapper whose state the
\* event task had advanced
C4_Witness ==
    /\ refPc = "notify"
    /\ wrapper.state >= 1
    /\ wrapper.users # << <<2, 0>> >>

GameTornDown == perPc \in {"remove", "done"}

C8_LagHealedBySync ==
    [][ \A c \in Conns :
          /\ ( /\ connPc[c] = "select"
               /\ Len(sentLog) - rxNext[c] > BroadcastCap
               /\ rxNext'[c] # rxNext[c] )
               => connPc'[c] = "read_lag" /\ pollRes'[c] = <<>>
          /\ connPc[c] = "read_lag" /\ connPc'[c] # "read_lag"
               => /\ stateLock = "free"
                  /\ connPc'[c] = "idle"
                  /\ pollRes'[c] =
                       << [via |-> "lag",
                           res |-> [kind |-> "Sync",
                                    data |-> [user_id |-> connUser[c],
                                              state |-> wrapper]]] >>
      ]_vars

\* a lag answered with a snapshot; the receiver is back inside the channel
C8_Witness ==
    \E c \in Conns :
       /\ pollRes[c] # <<>>
       /\ pollRes[c][1].via = "lag"
       /\ connPc[c] = "idle"
       /\ Len(sentLog) - rxNext[c] = BroadcastCap

\* C9: once the game has ended (tasks aborted, entry removed), a connection
\* that polls gets None: it is never left panicked, and a poll that got the
\* registry's read guard has ended the stream.
C9_PollAfterEndReturnsNone ==
    \A c \in Conns :
       (perPc = "done" /\ G \notin games /\ connPc[c] \notin {"none", "idle", "wait_games"})
          => connPc[c] = "closed"

\* C10: once a state with a winner has been saved (the persistence task has
\* left its loop), the three sibling tasks end and the entry leaves the
\* live-games map.
C10_WinnerLeadsToTeardown ==
    (perPc = "remove")
       ~> ( /\ perPc = "done" /\ G \notin games
            /\ tickPc = "aborted"
            /\ evPc \in {"aborted", "panicked"}
            /\ refPc \in {"aborted", "failed"} )

\* C5: when the client handles a Res::Event and holds a mirror, a
\* state_checksum that differs from the mirror's checksum leaves the mirror
\* (state, users, user id) unchanged and sends exactly one Req::Sync; a
\* matching one applies the event to the mirror and sends nothing.
C5_ClientReceive ==
    [][ \A d \in EventDatas :
          (cmsg' = Handled("ReceiveGameEvent", <<d>>) /\ mirror # <<>>)
            => IF d.state_checksum # Checksum(mirror[1].state)
               THEN mirror' = mirror /\ outbox' = Append(outbox, ReqSync)
               ELSE /\ outbox' = outbox
                    /\ mirror'[1].user_id = mirror[1].user_id
                    /\ mirror'[1].state.users = mirror[1].state.users
                    /\ mirror'[1].state.state =
                         StateUpdate(mirror[1].state.state, d.seed, d.event,
                            IF d.event.kind = "ClientEvent"
                            THEN MapGet(mirror[1].state.users, d.event.user)
                            ELSE <<>>)
      ]_vars

\* a mirror that took events up to a decided game and then rejected one more
\* with a resync
C5_Witness ==
    /\ cmsg # <<>>
    /\ cmsg[1].kind = "ReceiveGameEvent"
    /\ mirror # <<>>
    /\ mirror[1].state.state = WinScore
    /\ cmsg[1].arg[1].state_checksum # Checksum(mirror[1].state)
    /\ outbox = <<ReqSync, ReqEvent("init"), ReqSync>>

\* C11: the game is torn down (tasks aborted, entry queued for removal or
\* removed) only after save_game succeeded for a state with a winner; a
\* failed save, a stopped event task or a closed persistence channel tears
\* nothing down.
C11_TeardownOnlyAfterWinnerSaved ==
    perPc \in {"remove", "done"} => has_winner(perState) # <<>>

\* C12: the snapshot the persistence task takes from the channel to save is
\* the most recently applied state: a snapshot offered while an older one was
\* still unsent has superseded it.
C12_SavesMostRecentSnapshot ==
    [][ (perPc = "recv" /\ perPc' = "save") => perState' = wrapper.state ]_vars

\* the refresh task of game g is alive
RefreshTaskLive(g) == mRef[g] \notin {"none", "aborted"}

\* C13: after the refresh trigger is called, every live game's refresh task
\* eventually reloads the mapping and stores it in its StateWrapper.users,
\* also with two games live.
C13_TriggerRefreshesEveryGame ==
    \A g \in Games : \A v \in 1..MaxTriggers :
       (mStore = v /\ RefreshTaskLive(g)) ~> (mUsers[g] >= v \/ ~RefreshTaskLive(g))

\* C14: no registry operation of one game (load's insert, new_connection's
\* lookup, the persistence task's remove) waits at the head of the lock's
\* queue while a connection of another game holds the guard inside poll.
C14_RegistryOpsNotBlockedByOtherGame ==
    \A g \in Games :
       (mQ # <<>> /\ Head(mQ)[2] = g /\ Head(mQ)[1] \in {"load", "remove"})
          => \A h \in Games \ {g} : mConn[h] # "select"

\* C15: at most one reconnection backoff timer is pending; a timer is started
\* only by a WebSocketClosed that was unclean or carried code 4000, or by a
\* WebSocketFailed, and in both cases only when none is pending; every such
\* message with none pending starts exactly one; a clean close with another
\* code starts none.
C15_OneBackoffTimer ==
    /\ [](Len(web_socket_reconnector) <= 1)
    /\ [][ LET closed == cmsg' # <<>> /\ cmsg'[1].kind = "WebSocketClosed"
               failed == cmsg' = Handled("WebSocketFailed", <<>>)
               wants == \/ failed
                        \/ closed /\ (~cmsg'[1].arg[1] \/ cmsg'[1].arg[2] = DesyncCloseCode)
           IN  /\ timers_started' # timers_started
                   => /\ timers_started' = timers_started + 1
                      /\ wants
                      /\ web_socket_reconnector = <<>>
                      /\ web_socket_reconnector' # <<>>
               /\ (wants /\ web_socket_reconnector = <<>>)
                   => timers_started' = timers_started + 1
               /\ (closed \/ failed) /\ web_socket_reconnector # <<>>
                   => web_socket_reconnector' = web_socket_reconnector
               /\ (closed /\ ~wants)
                   => web_socket_reconnector' = web_socket_reconnector
      ]_vars

\* a second socket error arrived while the timer of the first was pending
\* and started none
C15_Witness ==
    /\ cmsg = Handled("WebSocketFailed", <<>>)
    /\ web_socket_reconnector # <<>>
    /\ timers_started = 1
    /\ web_socket = "connecting"

\* C16: every WebSocketOpened clears the reconnection handle and sends
\* exactly Req::Sync and then Req::Event(init), on a first connection and on
\* a reconnection, with or without a mirror.
C16_OpenSendsSyncThenInit ==
    [][ cmsg' = Handled("WebSocketOpened", <<>>)
          => /\ web_socket_reconnector' = <<>>
             /\ outbox' = outbox \o <<ReqSync, ReqEvent("init")>>
             /\ mirror' = mirror
      ]_vars

\* a reconnection opened with a mirror in place: the second pair of requests
C16_Witness ==
    /\ cmsg = Handled("WebSocketOpened", <<>>)
    /\ timers_started >= 1
    /\ mirror # <<>>
    /\ outbox = <<ReqSync, ReqEvent("init"), ReqSync, ReqEvent("init")>>

\* C17: once CloseWebSocket has been handled no reconnection is pending,
\* whatever socket events follow.
C17_UserCloseIsTerminal ==
    user_closed => web_socket_reconnector = <<>>

\* C18: InitGameState sets the mirror to the received SyncData whatever it
\* was; UserUpdate replaces the users mapping of a present mirror and leaves
\* its state and user id, and changes nothing while the mirror is absent;
\* neither sends anything.
C18_SyncReplacesUserUpdateMerges ==
    [][ /\ \A sd \in SyncDatas :
             cmsg' = Handled("InitGameState", <<sd>>)
                => mirror' = <<sd>> /\ outbox' = outbox
        /\ \A map \in UserMaps :
             cmsg' = Handled("UserUpdate", <<map>>)
                => /\ outbox' = outbox
                   /\ IF mirror = <<>>
                      THEN mirror' = <<>>
                      ELSE mirror' = << [user_id |-> mirror[1].user_id,
                                         state |-> [state |-> mirror[1].state.state,
                                                    users |-> map]] >>
      ]_vars

\* a mirror replaced by a second, different snapshot
C18_Witness ==
    /\ cmsg # <<>>
    /\ cmsg[1].kind = "InitGameState"
    /\ mirror = <<cmsg[1].arg[1]>>
    /\ mirror[1].state.state = 1
    /\ mirror[1].user_id = 1
    /\ outbox = <<ReqSync, ReqEvent("init"), ReqSync>>


\* ------------------------------------------------------------------ C19

\* what a call of request(Req::Event(..)) leaves alone: everything but the
\* event queue (and the histories of the queue and of the calls)
RequestFrame ==
    <<games, gamesQ, wrapper, stateLock, reqOpen, saveChan, bcast, sentLog, appliedLog,
      update_user_data, tickPc, refPc, evPc, evCur, evChecksum, abortReq, perPc, perState,
      loadPc, connPc, connUser, rxNext, syncPermit, syncAsked, userNotified, pollRes>>

\* how many client events were ever queued
ClientEventsQueued == Cardinality({i \in 1..Len(enqLog) : enqLog[i].kind = "ClientEvent"})

\* C19 as stated: every call of request(Req::Event(e)) on a connection of
\* user u appends exactly one Event::ClientEvent(e, u) to the event queue and
\* changes nothing else, also when the event task has stopped.
C19_EveryRequestAppendsOne ==
    [][ reqCalls' # reqCalls =>
          /\ \E c \in Conns, e \in ClientEvents :
                /\ connPc[c] # "none"
                /\ reqQueue' = Append(reqQueue, [id |-> Len(enqLog) + 1,
                                                 event |-> ClientEventOf(e, connUser[c])])
          /\ UNCHANGED RequestFrame ]_vars

\* C19 amended: while the event task's receiver is alive, a call of
\* request(Req::Event(e)) on a connection of user u appends exactly one
\* Event::ClientEvent(e, u), which carries the connection's user id and no
\* seed, to the event queue; once the event task has stopped the call
\* appends nothing and the event is dropped; in both cases nothing else
\* changes and nothing is returned.
C19_RequestAppendsOneWhileReceiverAlive ==
    [][ reqCalls' # reqCalls =>
          /\ reqCalls' = reqCalls + 1
          /\ IF reqOpen
             THEN \E c \in Conns, e \in ClientEvents :
                    /\ connPc[c] # "none"
                    /\ reqQueue' = Append(reqQueue, [id |-> Len(enqLog) + 1,
                                                     event |-> ClientEventOf(e, connUser[c])])
                    /\ enqLog' = Append(enqLog, ClientEventOf(e, connUser[c]))
             ELSE UNCHANGED <<reqQueue, enqLog>>
          /\ UNCHANGED RequestFrame ]_vars

\* one call was queued and a later one, made after the event task stopped,
\* was dropped
C19_Witness ==
    /\ ~reqOpen
    /\ reqCalls = 2
    /\ ClientEventsQueued = 1


\* ------------------------------------------------------------------ C20

\* C20: two StateWrapper copies with identical content that are given the
\* same EventData by update_checked end with identical content or both fail
\* with InvalidChecksum, also when the update inserts into an EntitySet.
C20_SameEventDataSameResult ==
    (pcall # <<>> /\ pcall[1].preA = pcall[1].preB) =>
        /\ pcall[1].resA = pcall[1].resB
        /\ copyA = copyB


\* ------------------------------------------------------------------ C21

\* C21: when load_game or load_user_data fails during load or create, the
\* call returns the error, none of its tasks runs, the live-games map has
\* no entry of that call, and the step of failing changes no task, no map
\* entry and no other call.
C21_FailedLoadLeavesNothing ==
    /\ [](\A i \in LoadCalls :
            lPc[i] = "failed" =>
               /\ lTasks[i] = "none"
               /\ lPer[i] = "none"
               /\ \A g \in Games : lMap[g] # i)
    /\ [][ \A i \in LoadCalls :
             (lPc[i] # "failed" /\ lPc'[i] = "failed") =>
                /\ UNCHANGED <<lTasks, lPer, lMap, lGame>>
                /\ \A j \in LoadCalls \ {i} : lPc'[j] = lPc[j] ]_vars

\* a load failed after its game id was known, while another game is live
\* with its tasks running
C21_Witness ==
    \E i \in LoadCalls, j \in LoadCalls :
       /\ lPc[i] = "failed" /\ lGame[i] # 0
       /\ lPc[j] = "done" /\ lTasks[j] = "run" /\ lPer[j] = "run"
       /\ lMap[lGame[j]] = j
       /\ lGame[j] # lGame[i]

\* ------------------------------------------------------------------ C30

\* C30: for each game id at most one set of orchestrator tasks is running at
\* any time, also when load is called for a game id that is already loaded.
C30_OneTaskSetPerGame ==
    \A g \in Games :
       /\ Cardinality({i \in LoadCalls : lGame[i] = g /\ lTasks[i] = "run"}) <= 1
       /\ Cardinality({i \in LoadCalls : lGame[i] = g /\ lPer[i] = "run"}) <= 1


\* ------------------------------------------------------------------ C29

\* C29: whenever the game has an entry in the live-games map its tick,
\* event, persistence and refresh tasks are running (the moment between the
\* aborts of a teardown and its removal of the entry set aside).
C29_LiveGameHasItsTasks ==
    (G \in games /\ perPc # "remove") =>
        /\ tickPc = "run"
        /\ evPc \in {"recv", "wlock", "apply"}
        /\ refPc \in {"wait", "load", "write", "notify"}
        /\ perPc \in {"recv", "save"}


\* ------------------------------------------------------------------ C22

\* the EntityRefs of a sequence of entries, in order
RefsOf(entities) == [k \in 1..Len(entities) |-> entities[k][1]]

\* C22: for_each_mut calls the callback exactly once on every stored entity,
\* in order and also after an entity was flagged; afterwards exactly the
\* unflagged entities remain, each resolving to the value the callback left,
\* and an EntityRef whose entity was removed never resolves again, whatever
\* is inserted later.
C22_ForEachMutVisitsAllRemovesAfter ==
    /\ \A r \in eGone : MapGet(eSet, r) = <<>>
    /\ (eLast # <<>> /\ eLast[1].op = "for_each_mut") =>
          LET pre == eLast[1].set
              f == eLast[1].f
          IN  /\ eLast[1].calls = RefsOf(pre)
              /\ EntityKeys(eSet) = {pre[k][1] : k \in {j \in 1..Len(pre) : ~f.flag[j]}}
              /\ \A k \in 1..Len(pre) :
                    IF f.flag[k]
                    THEN pre[k][1] \in eGone
                    ELSE MapGet(eSet, pre[k][1]) = <<f.val[k]>>

\* a pass over three entities of which the first is flagged and the second
\* is not
C22_Witness ==
    /\ eLast # <<>>
    /\ eLast[1].op = "for_each_mut"
    /\ Len(eLast[1].set) = 3
    /\ eLast[1].f.flag[1]
    /\ ~eLast[1].f.flag[2]

\* ------------------------------------------------------------------ C23

\* C23: after for_each_in_mut the derived set holds exactly its former
\* EntityRefs that the EntitySet held and the callback did not flag; the
\* flagged ones are gone from both, the callback was called on the derived
\* set's entities only, and the entities outside the derived set are as
\* they were.
C23_ForEachInMutPrunes ==
    (eLast # <<>> /\ eLast[1].op = "for_each_in_mut") =>
        LET pre == eLast[1].set
            prefs == eLast[1].refs
            f == eLast[1].f
            calls == eLast[1].calls
            flagged == {calls[n] : n \in {j \in 1..Len(calls) : f.flag[j]}}
            derived == {prefs[k] : k \in 1..Len(prefs)}
        IN  /\ calls = SelectSeq(prefs, LAMBDA x : x \in EntityKeys(pre))
            /\ {eRefs[k] : k \in 1..Len(eRefs)} = (derived \cap EntityKeys(pre)) \ flagged
            /\ EntityKeys(eSet) = EntityKeys(pre) \ flagged
            /\ \A k \in 1..Len(pre) :
                  pre[k][1] \notin derived => MapGet(eSet, pre[k][1]) = <<pre[k][2]>>

\* the derived set held an EntityRef missing from the EntitySet and one
\* that the callback flagged, and the EntitySet held an entity outside it
C23_Witness ==
    /\ eLast # <<>>
    /\ eLast[1].op = "for_each_in_mut"
    /\ \E k \in 1..Len(eLast[1].refs) : eLast[1].refs[k] \notin EntityKeys(eLast[1].set)
    /\ Len(eLast[1].calls) >= 1 /\ eLast[1].f.flag[1]
    /\ \E k \in 1..Len(eLast[1].set) :
          eLast[1].set[k][1] \notin {eLast[1].refs[j] : j \in 1..Len(eLast[1].refs)}

\* ------------------------------------------------------------------ C24

\* C24: after any sequence of insert, remove, for_each_mut and
\* for_each_in_mut, iterating the EntitySet yields the surviving entities in
\* the order in which they were inserted.
C24_IterationInInsertionOrder ==
    RefsOf(eSet) = SelectSeq(eOrder, LAMBDA r : r \in EntityKeys(eSet))


\* ------------------------------------------------------------------ C25

\* a has at least b's amount of every resource of either, none counting as 0
GeqEverywhere(a, b) ==
    \A k \in QtyKeys(a) \cup QtyKeys(b) : QtyGet(a, k) >= QtyGet(b, k)

\* C25: a.covers(c) is true exactly when a.get(k) >= c.get(k) for every
\* resource k that is a key of a or of c, an absent key counting as 0; the
\* empty Qty covers the empty Qty, a larger amount covers a smaller one and
\* not the other way round, the empty Qty covers {A: 0}; covers changes
\* neither operand.
C25_CoversIsPointwiseGeq ==
    /\ (qres # <<>> /\ qres[1].op = "covers") =>
          /\ qres[1].covers = GeqEverywhere(qres[1].a, qres[1].b)
          /\ qa = qres[1].a
          /\ qb = qres[1].b
    /\ Covers(<<>>, <<>>, <<>>)
    /\ Covers(<< <<"A", 3>> >>, << <<"A", 2>> >>, <<"A">>)
    /\ ~Covers(<< <<"A", 2>> >>, << <<"A", 3>> >>, <<"A">>)
    /\ Covers(<<>>, << <<"A", 0>> >>, <<"A">>)

\* covers answered false because of a resource that only the cost has
C25_Witness ==
    /\ qres # <<>>
    /\ qres[1].op = "covers"
    /\ ~qres[1].covers
    /\ \A k \in QtyKeys(qres[1].a) : QtyGet(qres[1].a, k) >= QtyGet(qres[1].b, k)

\* ------------------------------------------------------------------ C26

\* the subtraction went below zero: the build panicked, or the amount of a
\* resource wrapped around
Underflowed(r) ==
    \/ r.panic
    \/ \E k \in QtyKeys(r.a) \cup QtyKeys(r.b) :
          /\ QtyGet(r.a, k) < QtyGet(r.b, k)
          /\ QtyGet(r.q, k) = QtyGet(r.a, k) - QtyGet(r.b, k) + QtyMod

SubIsExact(r) ==
    IF GeqEverywhere(r.a, r.b)
    THEN /\ ~r.panic
         /\ \A k \in QtyKeys(r.a) \cup QtyKeys(r.b) :
               QtyGet(r.q, k) = QtyGet(r.a, k) - QtyGet(r.b, k)
    ELSE Underflowed(r)

\* C26 as stated: for all Qty values the amounts of a + b are the sums and,
\* when a covers b, those of a - b the differences; += and -= give the
\* same; when a does not cover b the subtraction underflows.
C26_ArithmeticExact ==
    qres # <<>> =>
       LET r == qres[1]
       IN  /\ r.op \in {"add", "add_assign"} =>
                /\ ~r.panic
                /\ \A k \in QtyKeys(r.a) \cup QtyKeys(r.b) :
                      QtyGet(r.q, k) = QtyGet(r.a, k) + QtyGet(r.b, k)
           /\ r.op \in {"sub", "sub_assign"} => SubIsExact(r)
           /\ r.op \in {"add_assign", "sub_assign"} => qa = r.q

\* C26 amended: the amounts of a + b are the sums as long as no sum exceeds
\* the counter's range; a sum beyond it overflows the counter (the checked
\* build panics, the other wraps around); when a covers b the amounts of
\* a - b are the differences, and when it does not the subtraction
\* underflows; += and -= give the same amounts as + and -.
C26_ArithmeticExactInRange ==
    qres # <<>> =>
       LET r == qres[1]
           keys == QtyKeys(r.a) \cup QtyKeys(r.b)
       IN  /\ r.op \in {"add", "add_assign"} =>
                IF \A k \in keys : QtyGet(r.a, k) + QtyGet(r.b, k) < QtyMod
                THEN /\ ~r.panic
                     /\ \A k \in keys : QtyGet(r.q, k) = QtyGet(r.a, k) + QtyGet(r.b, k)
                ELSE \/ r.panic
                     \/ \A k \in keys :
                           QtyGet(r.q, k) = (QtyGet(r.a, k) + QtyGet(r.b, k)) % QtyMod
           /\ r.op \in {"sub", "sub_assign"} => SubIsExact(r)
           /\ r.op \in {"add_assign", "sub_assign"} => qa = r.q

\* a subtraction of a covered cost that leaves something of a resource
C26_Witness ==
    /\ qres # <<>>
    /\ qres[1].op = "sub"
    /\ GeqEverywhere(qres[1].a, qres[1].b)
    /\ \E k \in QtyKeys(qres[1].b) :
          QtyGet(qres[1].b, k) > 0 /\ QtyGet(qres[1].q, k) > 0

\* C28: on one connection, once poll has returned a Res::Sync, no Res::Event
\* that poll returns later is an event the snapshot already reflected: every
\* event delivered after the snapshot was applied after it was taken.
C28_NoReflectedEventAfterSync ==
    \A c \in Conns :
       (pollRes[c] # <<>> /\ pollRes[c][1].via = "recv") =>
          \A i \in 1..snapLen[c] : appliedLog[i].id # sentLog[rxNext[c]].id

\* C27: whenever the client's mirror is present, its StateWrapper (state and
\* users together) is a value the server's wrapper has had.
C27_MirrorIsAServerWrapper ==
    mirror # <<>> => mirror[1].state \in held

\* the two values read the same amount for every resource kind
SameAmounts(a, b) == \A k \in Resources : QtyGet(a, k) = QtyGet(b, k)

\* C31: two Qty values that read the same amount for every resource kind
\* compare equal, an explicit zero entry counting as an absent key; so, without
\* overflow, (q + r) - r == q and q + Qty::default() == q.
C31_EqualityAgreesWithAmounts ==
    qres # <<>> =>
       LET r == qres[1]
       IN  /\ (r.op = "eq" /\ SameAmounts(r.a, r.b)) => r.eq
           /\ (r.op = "add_sub"
                 /\ \A k \in Resources : QtyGet(r.a, k) + QtyGet(r.b, k) < QtyMod) => r.eq
           /\ r.op = "add_default" => r.eq

====
